---- MODULE Spec2Model ----
(***************************************************************************)
(* Resource lifetime and frame synchronisation of the luminary renderer:   *)
(* the deferred deletion queue (graphics/delete_queue.rs), the two frame   *)
(* slots (graphics/frame.rs), the swapchain (graphics/swapchain.rs) and    *)
(* the draw / resize / teardown handlers of Graphics (graphics/mod.rs) as  *)
(* driven by the event loop of main.rs.                                    *)
(*                                                                         *)
(* The specifications that share the module:                               *)
(*   SpecDQ     two DeleteQueues on their own: push, append, flush, new    *)
(*   Spec       a constructed Graphics: draw, resize, GPU retirement, drop *)
(*   SpecLive   Spec with a host thread that does not stop inside acquire  *)
(*   SpecNew    Graphics::new step by step, then the life of its result    *)
(*   SpecImm    an Immediate (graphics/immediate.rs) and its submit()      *)
(*   SpecExtent a Swapchain on its own: new, recreate, acquire, destroy    *)
(*   SpecBuf    a Buffer (graphics/buffer.rs): build, write, read, flush   *)
(*                                                                         *)
(* device_wait_idle is modelled by its meaning (every pending submission   *)
(* retires); its error return, which the code discards, is not modelled.   *)
(***************************************************************************)
EXTENDS Integers, Sequences, FiniteSets, TLC

(* ------------------------------ bounds -------------------------------- *)
\* render-target images built in one run (the first one by Graphics::new)
MaxTargets == 3
\* distinct swapchain handle values
MaxChains == 3
\* native acquire attempts inside one Swapchain::acquire call
MaxAttempts == 4
\* records pushed on the stand-alone queues before a flush
MaxPush == 4
\* Immediate::submit calls made on one Immediate
MaxSubmits == 3
\* largest capacity asked of a BufferBuilder, in bytes
MaxCapacity == 2

(* ------------------------- program constants -------------------------- *)
\* frames: [FrameInFlight; 2]
FRAMES == 2
\* const RENDER_TARGET_MULTIPLES: u32 = 256
RENDER_TARGET_MULTIPLES == 256

Slots == 0 .. (FRAMES - 1)

\* window sizes the windowing layer reports (width, height)
WindowExtents == { <<64, 64>>, <<64, 700>>, <<600, 64>> }
\* surface capabilities the driver reports: min and max image extent
SurfaceCaps == { [minw |-> 1, minh |-> 1, maxw |-> 512, maxh |-> 512] }

VARIABLES
  \* ---- Graphics and its parts (Spec) ----
  pc,          \* position of the host thread (event loop / handler step)
  frame,       \* FramesInFlight.frame, the cursor
  cur,         \* frame_i of the running draw()
  slot,        \* per frame slot: fence, pending submission, recorded refs
  queues,      \* the DeleteQueues: global, rt, f0, f1, and new()'s init
  destroyed,   \* records destroyed so far, in order of destruction
  rt,          \* Graphics.render_target: image generation and extent
  binding,     \* image generation written to descriptor binding 0
  ntargets,    \* render-target images built so far
  sc,          \* Swapchain: inner, suboptimal, extent, images
  chains,      \* native chain handles alive
  acq,         \* the running acquire(): native results and recreations, in order
  err,         \* the error that ended the loop: <<call, cause>>
  age,         \* per replaced target: fence waits survived in a slot queue
  tdlog,       \* steps of Drop for Graphics done so far
  leaks,       \* "dropped without flushing" reports
  ops,         \* calls the running (or last) draw() has made on its slot
  resized,     \* window extent of the last resize() and the length of the
               \* run of resize() calls that saw it; << >> after a draw()
  \* ---- stand-alone DeleteQueue (SpecDQ) ----
  hq,          \* DeleteQueue.inner of the queue that is flushed
  hother,      \* DeleteQueue.inner of a second queue, appended to the first
  hlog,        \* destroy calls made by the last flush, in order
  hpushed,     \* records put on the first queue since it was constructed
  hbase,       \* the first queue as the append just made found it
  hmoved,      \* the second queue as the append just made found it
  happ,        \* the last flush came directly after an append
  hfailed,     \* positions in hlog of the destroy calls that returned Err
  hleak,       \* leak reports made when the first queue was dropped
  hpc,         \* "open", "appended", "flushed" or "dropped"
  \* ---- Immediate (SpecImm) ----
  ipc,         \* next call of the running submit(); "idle" between submits
  ifence,      \* Immediate.fence is signaled
  ipending,    \* a submission of Immediate.cbuf is executing on the queue
  icbuf,       \* lifecycle state of Immediate.cbuf
  icalls,      \* calls the running (or last) submit() has made, in order
  irets,       \* what each finished submit() returned, in order
  isubmits,    \* submit() calls made so far
  iqueued,     \* batches handed to the queue so far
  ival,        \* the value the closure of the running submit() returned
  \* ---- a Swapchain on its own (SpecExtent) ----
  xsc,         \* the Swapchain: inner, suboptimal, extent, images
  xchains,     \* native chain handles alive
  xreq,        \* the extent the last create() was asked for
  xcaps,       \* the surface capabilities the last create() was given
  xpc,         \* "none", "live", "failed" (last recreate() returned Err)
               \* or "destroyed"
  xacq,        \* handle the last acquire_next_image was called on; -1: none yet
  \* ---- a Buffer and the queue it was built into (SpecBuf) ----
  bpc,         \* "none", "built", "failed" or "freed"
  bbuilder,    \* BufferBuilder: capacity, location
  bbuf,        \* Buffer: size, ptr (TRUE when Some)
  bmem,        \* bytes of the memory region the allocation maps
  bq,          \* the DeleteQueue given to build
  bwrote,      \* bytes last written through as_slice_mut
  bread        \* what the last as_slice returned

gvars == << pc, frame, cur, slot, queues, destroyed, rt, binding, ntargets,
            sc, chains, acq, err, age, tdlog, leaks, ops, resized >>
hvars == << hq, hother, hlog, hpushed, hbase, hmoved, happ, hfailed, hleak,
            hpc >>
ivars == << ipc, ifence, ipending, icbuf, icalls, irets, isubmits, iqueued,
            ival >>
xvars == << xsc, xchains, xreq, xcaps, xpc, xacq >>
bvars == << bpc, bbuilder, bbuf, bmem, bq, bwrote, bread >>
vars == << gvars, hvars, ivars, xvars, bvars >>

(* --------------------------- DeleteQueue ------------------------------ *)
Reverse(s) == [ i \in 1 .. Len(s) |-> s[Len(s) + 1 - i] ]

\* DeleteQueue::new
DQNew == << >>

\* DeleteQueue::push: self.inner.push(object.into())
DQPush(q, e) == Append(q, e)

\* an append that puts the moved records in front of the ones already held
DQAppend_Front(self, from) == from \o self

\* an append that copies the records and leaves them in from as well
DQAppendFrom_Keeps(self, from) == from

\* DeleteQueue::append: self.inner.append(&mut from.inner)
\* Vec::append moves every element of from to the end of self, in order ...
DQAppend(self, from) == self \o from
\* ... and leaves from empty
DQAppendFrom(self, from) == << >>

\* flush that walks the drained records front to back (the .rev() left out)
DQFlushOrder_NoRev(q) == q

\* DeleteQueue::flush: the destroy calls it makes, in order
\* (for object in self.inner.drain(..).rev()); the queue is empty afterwards
DQFlushOrder(q) == Reverse(q)

\* DeletionEntry::destroy: only alloc.free(allocation)? can return Err
DestroyCanFail(tag) == tag = "Allocation"

\* a flush that stops at the first destroy call that returns Err
DQFlushAttempts_Abort(q, fails) ==
  IF fails = { } THEN DQFlushOrder(q)
  ELSE LET stop == CHOOSE p \in fails : \A r \in fails : r <= p
       IN  SubSeq(DQFlushOrder(q), 1, Len(q) + 1 - stop)

\* flush: the destroy calls it makes when those of the records at the
\* positions fails return Err (if let Err(err) = object.destroy(..) { log })
DQFlushAttempts(q, fails) == DQFlushOrder(q)

\* a Drop for DeleteQueue that reports every record it still holds
DropReports_PerRecord(q) == Len(q)

\* Drop for DeleteQueue: the "dropped without flushing" reports it makes
DropReports(q) == IF q = << >> THEN 0 ELSE 1

(* ------------------------------ records ------------------------------- *)
\* a build that registers the view before the memory and the image
ImageRecords_ViewFirst(g) ==
  << <<"ImageView", g>>, <<"Allocation", g>>, <<"Image", g>> >>

\* a DeletionEntry: <<variant, object>>
ImageRecords(g) == << <<"Image", g>>, <<"Allocation", g>>, <<"ImageView", g>> >>

\* what FrameInFlight::new pushes for slot i
FrameRecords(i) == << <<"CommandPool", i>>, <<"Semaphore", 2 * i>>,
                      <<"Semaphore", 2 * i + 1>>, <<"Fence", i>> >>

\* global_delete_queue after Graphics::new: both frame slots, descriptor pool,
\* descriptor set layout, pipeline layout, pipeline
GlobalRecords == FrameRecords(0) \o FrameRecords(1) \o
                 << <<"DescriptorPool", 0>>, <<"DescriptorSetLayout", 0>>,
                    <<"PipelineLayout", 0>>, <<"Pipeline", 0>> >>

Range(s) == { s[i] : i \in 1 .. Len(s) }

\* the private queue of frame slot i
FQ(i) == IF i = 0 THEN "f0" ELSE "f1"
\* "init" is the init_delete_queue local to Graphics::new
QueueIds == { "global", "rt", "f0", "f1", "init" }

(* --------------------------- FramesInFlight --------------------------- *)
\* a next() that advances first and hands out the slot at the new cursor
NextIndex_Advanced(f) == (f + 1) % FRAMES
\* an increment() that leaves the cursor where it is
Increment_Stuck(f) == f
\* a previous() that saturates at slot 0 instead of wrapping
PreviousIndex_NoWrap(f) == IF f = 0 THEN 0 ELSE f - 1

\* next(): let idx = self.frame; self.increment(); (&mut self.frames[idx], idx)
NextIndex(f) == f
\* increment(): self.frame = (self.frame + 1) % self.frames.len()
Increment(f) == (f + 1) % FRAMES
\* current(): self.frame
CurrentIndex(f) == f
\* previous(): self.frame.wrapping_sub(1).min(self.frames.len() - 1)
\* (0 wraps to usize::MAX, which min() brings down to len - 1)
PreviousIndex(f) == IF f = 0 THEN FRAMES - 1
                    ELSE IF f - 1 < FRAMES - 1 THEN f - 1 ELSE FRAMES - 1

(* ----------------------------- the GPU -------------------------------- *)
\* a pending submission retires: its fence is signaled and its command
\* buffer, begun with ONE_TIME_SUBMIT, holds no recording any more
Retired(f) == [ f EXCEPT !.pending = FALSE, !.fence = TRUE, !.cbuf = 0 ]

\* a device_wait_idle that returns at once
DeviceWaitIdle_Skipped(s) == s

\* device_wait_idle: every pending submission retires
DeviceWaitIdle(s) ==
  [ i \in Slots |-> IF s[i].pending THEN Retired(s[i]) ELSE s[i] ]

\* the records a submission of slot i that recorded render target g reads
SubmissionRefs(i, g) ==
  Range(FrameRecords(i)) \cup Range(ImageRecords(g)) \cup
  { <<"DescriptorPool", 0>>, <<"DescriptorSetLayout", 0>>,
    <<"PipelineLayout", 0>>, <<"Pipeline", 0>> }

(* ----------------------------- Swapchain ------------------------------ *)
Max(a, b) == IF a >= b THEN a ELSE b
Min(a, b) == IF a <= b THEN a ELSE b
AbsDiff(a, b) == IF a >= b THEN a - b ELSE b - a
NextMultipleOf(v, m) == IF v % m = 0 THEN v ELSE v + (m - (v % m))

\* a create() that hands the requested extent on as it is
CreateExtent_Unclamped(win, caps) == win

\* create(): extent.width.max(caps.min_image_extent.width)
\*                        .min(caps.max_image_extent.width), same for height
CreateExtent(win, caps) ==
  << Min(Max(win[1], caps.minw), caps.maxw),
     Min(Max(win[2], caps.minh), caps.maxh) >>

\* the handle value create_swapchain returns next: the least one that is not
\* alive and differs from the chain the stored images came from
FreeChains(s, live) == { h \in 1 .. MaxChains : h \notin live /\ h # s.images }
NewChain(s, live) ==
  CHOOSE h \in FreeChains(s, live) : \A k \in FreeChains(s, live) : h <= k

CreateResults == { "ok", "query_failed", "images_failed" }

\* destroy(): a null handle is left alone; otherwise destroy_swapchain and
\* self.inner = null
DestroyChain(s) == IF s.inner = 0 THEN s ELSE [ s EXCEPT !.inner = 0 ]

\* a destroy() that leaves the native chain alive
DestroyAlive_Leaks(s, live) == live

\* destroy(): the native chains alive afterwards
DestroyAlive(s, live) == IF s.inner = 0 THEN live ELSE live \ { s.inner }

\* a create() that carries the old flag over into the new Swapchain
Created_KeepsFlag(s, live, win, caps) ==
  [ inner |-> NewChain(s, live), suboptimal |-> s.suboptimal,
    extent |-> CreateExtent(win, caps), images |-> NewChain(s, live) ]

\* create(): the Swapchain value it returns on success
Created(s, live, win, caps) ==
  [ inner |-> NewChain(s, live), suboptimal |-> FALSE,
    extent |-> CreateExtent(win, caps), images |-> NewChain(s, live) ]

\* recreate(): device_wait_idle (see the GPU), self.destroy(),
\* *self = Self::create(..)?
\* cres: "ok", a query failing before create_swapchain, or get_swapchain_images
\* failing after it (the new handle is then held by nobody)
Recreate(s, live, win, caps, cres) ==
  IF cres = "ok"
  THEN [ ok |-> TRUE,
         sc |-> Created(s, DestroyAlive(s, live), win, caps),
         chains |-> DestroyAlive(s, live)
                      \cup { NewChain(s, DestroyAlive(s, live)) } ]
  ELSE [ ok |-> FALSE, sc |-> DestroyChain(s),
         chains |-> IF cres = "images_failed"
                    THEN DestroyAlive(s, live)
                           \cup { NewChain(s, DestroyAlive(s, live)) }
                    ELSE DestroyAlive(s, live) ]

\* a free handle value is needed whenever create_swapchain succeeds
CanCreate(s, live, cres) ==
  cres = "query_failed" \/ FreeChains(s, DestroyAlive(s, live)) # {}

\* results of acquire_next_image as ash returns them
AcquireResults == { "ok", "ok_suboptimal", "not_ready", "timeout",
                    "out_of_date", "error" }
\* an acquire() that gives up when the image is not ready
Retryable_OutOfDateOnly == { "out_of_date" }
\* an acquire() that tries again after a timeout
Retryable_WithTimeout == { "not_ready", "out_of_date", "timeout" }

\* an acquire() that tries again after every failure
Retryable_All == { "not_ready", "out_of_date", "timeout", "error" }

\* results after which the loop of acquire() goes round again
Retryable == { "not_ready", "out_of_date" }
\* an acquire() that retries after out-of-date without recreating
RecreatesOn_Never(res) == FALSE

\* Err(vk::Result::ERROR_OUT_OF_DATE_KHR) => { self.recreate(..)?; }
RecreatesOn(res) == res = "out_of_date"
\* an acquire() that drops the suboptimal bit of a successful native acquire
AcquireFlag_Dropped(flag, res) == flag

\* Ok((index, suboptimal)) => { self.suboptimal |= suboptimal; return Ok(..) }
AcquireFlag(flag, res) == flag \/ (res = "ok_suboptimal")

\* results of queue_present as ash returns them: Ok(false), Ok(true),
\* Err(ERROR_OUT_OF_DATE_KHR), any other Err
PresentResults == { "ok", "suboptimal", "out_of_date", "error" }

\* present(): self.suboptimal |= unsafe { queue_present(..)? }
PresentOk(res) == res \in { "ok", "suboptimal" }
PresentFlag(flag, res) == IF PresentOk(res) THEN flag \/ (res = "suboptimal")
                          ELSE flag

(* --------------------------- FrameInFlight ---------------------------- *)
\* a render_fence created without the SIGNALED flag
NewFence_Unsignaled == FALSE

\* FrameInFlight::new: FenceCreateInfo::default().flags(SIGNALED)
NewFence == TRUE

\* a wait() that hands the fences of every slot to wait_for_fences
WaitFences_All(i) == Slots

\* wait(): the fences it hands to wait_for_fences (&[self.render_fence])
WaitFences(i) == { i }

WaitResults == { "ok", "timeout", "reset_failed" }

\* a wait() that flushes before it looks at the fence
WaitDestroys_Always(res, q) == Reverse(q)
\* a wait() that never blocks on the fence
WaitPossible_Always(res, fence) == TRUE

\* wait(): wait_for_fences(..)?; reset_fences(..)?; self.delete_queue.flush()
\* the destroy calls a wait() with this outcome makes on the slot's queue q
WaitDestroys(res, q) == IF res = "ok" THEN DQFlushOrder(q) ELSE << >>
WaitQueue(res, q) == IF res = "ok" THEN DQNew ELSE q
\* the outcomes the fence allows: the wait succeeds only on a signaled fence,
\* and times out only on one that stayed unsignaled
WaitPossible(res, fence) == IF res = "timeout" THEN ~fence ELSE fence

(* ------------------------------ Graphics ------------------------------ *)
BuildResults == { "ok", "image_failed", "alloc_failed", "bind_failed",
                  "view_failed" }

\* a build that registers the image, its memory and its view only once all
\* three exist
Built_PushAtEnd(g, bres) == IF bres = "ok" THEN ImageRecords(g) ELSE << >>

\* ImageBuilder::build: the objects it has created when it returns
\* (create_image, alloc.allocate, create_image_view)
BuiltObjects(g, bres) ==
  CASE bres = "image_failed" -> { }
    [] bres = "alloc_failed" -> { <<"Image", g>> }
    [] bres = "bind_failed"  -> { <<"Image", g>>, <<"Allocation", g>> }
    [] bres = "view_failed"  -> { <<"Image", g>>, <<"Allocation", g>> }
    [] OTHER                 -> { <<"Image", g>>, <<"Allocation", g>>,
                                  <<"ImageView", g>> }

\* ImageBuilder::build: the records it has pushed when it returns
Built(g, bres) ==
  CASE bres = "image_failed" -> << >>
    [] bres = "alloc_failed" -> << <<"Image", g>> >>
    [] bres = "bind_failed"  -> << <<"Image", g>>, <<"Allocation", g>> >>
    [] bres = "view_failed"  -> << <<"Image", g>>, <<"Allocation", g>> >>
    [] OTHER                 -> ImageRecords(g)

\* a resize() that replaces the render target every time
KeepsTarget_Never(target, surface) == FALSE

\* resize(): the test that keeps the current render target
\* (the abs_diff of the widths is tested twice, the heights' never)
KeepsTarget(target, surface) ==
  /\ target[1] >= surface[1]
  /\ target[2] >= surface[2]
  /\ AbsDiff(target[1], surface[1]) <= RENDER_TARGET_MULTIPLES
  /\ AbsDiff(target[1], surface[1]) <= RENDER_TARGET_MULTIPLES

\* resize(): the extent of the replacement
NewTargetExtent(surface) ==
  << NextMultipleOf(surface[1], RENDER_TARGET_MULTIPLES),
     NextMultipleOf(surface[2], RENDER_TARGET_MULTIPLES) >>

\* a resize() that hands the records to current() instead of previous()
ResizeTargetSlot_Current(f) == CurrentIndex(f)

\* resize(): the slot whose queue takes the replaced target's records
\* (self.frames.previous().0.delete_queue.append(..))
ResizeTargetSlot(f) == PreviousIndex(f)

\* a Drop for Graphics that destroys the swapchain before the queues are flushed
DropOrder_SwapchainFirst ==
  << "device_wait_idle", "destroy_swapchain", "flush_render_target",
     "flush_global", "drop_allocator", "destroy_device", "destroy_surface",
     "destroy_debug_utils" >>

\* Drop for Graphics, in program order
DropOrder == << "device_wait_idle", "flush_render_target", "flush_global",
                "drop_allocator", "destroy_swapchain", "destroy_device",
                "destroy_surface", "destroy_debug_utils" >>

\* the deletion queues Drop for Graphics flushes at each step, in order
DropFlushes(step) ==
  CASE step = "flush_render_target" -> << "rt" >>
    [] step = "flush_global"        -> << "global" >>
    [] OTHER                        -> << >>

\* the events of one acquire() call: the results of acquire_next_image and
\* "recreate" for each recreate() that returned Ok
NoAcquire == << >>
Natives(log) == SelectSeq(log, LAMBDA e : e # "recreate")
Recreations(log) == Len(SelectSeq(log, LAMBDA e : e = "recreate"))

\* the destroy calls of flushing the queues qs (a sequence of ids) in turn
RECURSIVE FlushEach(_, _)
FlushEach(qs, Q) ==
  IF qs = << >> THEN << >>
  ELSE DQFlushOrder(Q[Head(qs)]) \o FlushEach(Tail(qs), Q)

\* a replaced target's records have sat through one more fence wait
Aged(a) == [ g \in DOMAIN a |-> IF a[g] >= 0 /\ a[g] < FRAMES THEN a[g] + 1
                                ELSE a[g] ]

\* an event loop whose handlers log the error of draw() or resize() and go on
LoopRuns_PastErrors(p) == p \in { "idle", "failed" }

\* the event loop dispatches RedrawRequested, about_to_wait and Resized to a
\* Graphics whose draw() and resize() have so far returned Ok: an Err makes
\* .expect("failed to draw") / .expect("failed to resize") panic
LoopRuns(p) == p = "idle"

\* the synchronisation objects of frame slot i, as FrameInFlight::new
\* creates them
SwapchainSema(i) == << "Semaphore", 2 * i >>
RenderSema(i) == << "Semaphore", 2 * i + 1 >>
RenderFence(i) == << "Fence", i >>

\* a draw() that presents as soon as the image has been acquired
PresentOp_OnAcquire(i) ==
  [ op |-> "present", waits |-> { SwapchainSema(i) }, signals |-> { } ]

\* the calls of draw() on slot i with what each waits on and signals
\* frame.wait: wait_for_fences(&[self.render_fence])
WaitOp(i) == [ op |-> "wait", waits |-> { RenderFence(i) }, signals |-> { } ]
\* self.swapchain.acquire(&self.device, frame.swapchain_sema, ..)
AcquireOp(i) ==
  [ op |-> "acquire", waits |-> { }, signals |-> { SwapchainSema(i) } ]
BeginOp(i) == [ op |-> "begin", waits |-> { }, signals |-> { } ]
EndOp(i) == [ op |-> "end", waits |-> { }, signals |-> { } ]
\* frame.submit: waits on swapchain_sema, signals render_sema and render_fence
SubmitOp(i) ==
  [ op |-> "submit", waits |-> { SwapchainSema(i) },
    signals |-> { RenderSema(i), RenderFence(i) } ]
\* self.swapchain.present(swapchain_image, .., frame.render_sema)
PresentOp(i) ==
  [ op |-> "present", waits |-> { RenderSema(i) }, signals |-> { } ]
\* a call and whether it returned Ok
Call(o, ok) == [ op |-> o.op, waits |-> o.waits, signals |-> o.signals,
                 ok |-> ok ]

\* resize() saw the window extent win: the run of resize() calls that saw
\* the same extent grows (counted up to 2), or a new run starts
Resized(r, win) ==
  IF r # << >> /\ r[1] = win THEN << win, Min(r[2] + 1, 2) >> ELSE << win, 1 >>

(* ------------------------- initial state ------------------------------ *)
\* Graphics::new returned Ok for a window of extent win
GraphicsInit(win, caps) ==
  /\ pc = "idle"
  /\ frame = 0
  /\ cur = 0
  /\ slot = [ i \in Slots |-> [ fence |-> NewFence, pending |-> FALSE, cbuf |-> 0 ] ]
  /\ queues = [ q \in QueueIds |->
                  CASE q = "global" -> GlobalRecords
                    [] q = "rt"     -> ImageRecords(1)
                    [] OTHER        -> DQNew ]
  /\ destroyed = << <<"ShaderModule", 0>> >>
  /\ rt = [ gen |-> 1, extent |-> win ]
  /\ binding = 1
  /\ ntargets = 1
  /\ sc = [ inner |-> 1, suboptimal |-> FALSE,
            extent |-> CreateExtent(win, caps), images |-> 1 ]
  /\ chains = { 1 }
  /\ acq = NoAcquire
  /\ err = << >>
  /\ age = [ g \in 1 .. MaxTargets |-> -1 ]
  /\ tdlog = << >>
  /\ leaks = 0
  /\ ops = << >>
  /\ resized = << >>

HarnessOff ==
  /\ hq = << >> /\ hother = << >> /\ hlog = << >> /\ hpushed = << >>
  /\ hbase = << >> /\ hmoved = << >> /\ happ = FALSE /\ hfailed = { }
  /\ hleak = 0 /\ hpc = "off"

\* requested extents (width, height), below, inside and above the limits
ExtRequests == { << 0, 200 >>, << 64, 700 >>, << 300, 0 >>, << 700, 200 >> }
\* min and max image extents a surface can report
ExtCaps ==
  { [ minw |-> lw[1], maxw |-> lw[2], minh |-> lh[1], maxh |-> lh[2] ] :
      lw \in { << 1, 512 >>, << 128, 256 >> },
      lh \in { << 1, 512 >>, << 200, 200 >> } }

\* no Swapchain has been created
ExtOff ==
  /\ xsc = [ inner |-> 0, suboptimal |-> FALSE, extent |-> << 0, 0 >>,
             images |-> 0 ]
  /\ xchains = { }
  /\ xreq = << 0, 0 >>
  /\ xcaps = [ minw |-> 1, maxw |-> 512, minh |-> 1, maxh |-> 512 ]
  /\ xpc = "none"
  /\ xacq = -1

\* no Buffer has been built
BufOff ==
  /\ bpc = "none"
  /\ bbuilder = [ capacity |-> 0, location |-> "GpuOnly" ]
  /\ bbuf = [ size |-> 0, ptr |-> FALSE ]
  /\ bmem = [ mapped |-> FALSE, bytes |-> << >> ]
  /\ bq = << >>
  /\ bwrote = << >>
  /\ bread = << "unread" >>

\* no Immediate exists
ImmOff ==
  /\ ipc = "off" /\ ifence = FALSE /\ ipending = FALSE /\ icbuf = "initial"
  /\ icalls = << >> /\ irets = << >> /\ isubmits = 0 /\ iqueued = 0
  /\ ival = 0

Init ==
  /\ \E win \in WindowExtents, caps \in SurfaceCaps : GraphicsInit(win, caps)
  /\ HarnessOff
  /\ ImmOff
  /\ ExtOff
  /\ BufOff

(* ------------------------------ draw() -------------------------------- *)
\* let (frame, frame_i) = self.frames.next();
DrawNext ==
  /\ LoopRuns(pc)
  /\ cur' = NextIndex(frame)
  /\ frame' = Increment(frame)
  /\ pc' = "d_wait"
  /\ ops' = << >>
  /\ resized' = << >>
  /\ UNCHANGED << slot, queues, destroyed, rt, binding, ntargets, sc, chains,
                  acq, err, age, tdlog, leaks, hvars, ivars, xvars, bvars >>

\* frame.wait(&self.device, &mut self.allocator)?;
DrawWait(res) ==
  /\ pc = "d_wait"
  /\ WaitPossible(res, \A j \in WaitFences(cur) : slot[j].fence)
  /\ destroyed' = destroyed \o WaitDestroys(res, queues[FQ(cur)])
  /\ queues' = [ queues EXCEPT ![FQ(cur)] = WaitQueue(res, @) ]
  /\ slot' = IF res = "ok" THEN [ slot EXCEPT ![cur].fence = FALSE ] ELSE slot
  /\ age' = IF res = "ok" THEN Aged(age) ELSE age
  /\ pc' = IF res = "ok" THEN "acq_check" ELSE "failed"
  /\ err' = IF res = "ok" THEN err ELSE << "wait", res >>
  /\ acq' = NoAcquire
  /\ ops' = Append(ops, Call(WaitOp(cur), res = "ok"))
  /\ UNCHANGED << frame, cur, rt, binding, ntargets, sc, chains,
                  tdlog, leaks, resized, hvars, ivars, xvars, bvars >>

\* acquire(), top of the loop: if self.suboptimal { self.recreate(..)?; }
AcquireCheck(win, caps, cres) ==
  /\ pc = "acq_check"
  /\ IF sc.suboptimal
     THEN /\ CanCreate(sc, chains, cres)
          /\ sc' = Recreate(sc, chains, win, caps, cres).sc
          /\ chains' = Recreate(sc, chains, win, caps, cres).chains
          /\ slot' = DeviceWaitIdle(slot)
          /\ pc' = IF cres = "ok" THEN "acq_native" ELSE "failed"
          /\ err' = IF cres = "ok" THEN err ELSE << "acquire", cres >>
          /\ acq' = IF cres = "ok" THEN Append(acq, "recreate") ELSE acq
     ELSE /\ pc' = "acq_native"
          /\ UNCHANGED << sc, chains, slot, err, acq >>
  /\ ops' = IF pc' = "failed" THEN Append(ops, Call(AcquireOp(cur), FALSE))
            ELSE ops
  /\ UNCHANGED << frame, cur, queues, destroyed, rt, binding, ntargets,
                  age, tdlog, leaks, resized, hvars, ivars, xvars, bvars >>

\* acquire(), rest of the loop: acquire_next_image and the match on its result
AcquireNative(res, win, caps, cres) ==
  /\ pc = "acq_native"
  /\ Len(Natives(acq)) < MaxAttempts
  /\ res \in Retryable => Len(Natives(acq)) + 1 < MaxAttempts
  /\ CASE res \in { "ok", "ok_suboptimal" } ->
            /\ sc' = [ sc EXCEPT !.suboptimal = AcquireFlag(@, res) ]
            /\ acq' = Append(acq, res)
            /\ pc' = "d_begin"
            /\ UNCHANGED << chains, slot, err >>
       [] res \in Retryable /\ ~RecreatesOn(res) ->
            /\ acq' = Append(acq, res)
            /\ pc' = "acq_check"
            /\ UNCHANGED << sc, chains, slot, err >>
       [] res \in Retryable /\ RecreatesOn(res) ->
            /\ CanCreate(sc, chains, cres)
            /\ sc' = Recreate(sc, chains, win, caps, cres).sc
            /\ chains' = Recreate(sc, chains, win, caps, cres).chains
            /\ slot' = DeviceWaitIdle(slot)
            /\ pc' = IF cres = "ok" THEN "acq_check" ELSE "failed"
            /\ err' = IF cres = "ok" THEN err ELSE << "acquire", cres >>
            /\ acq' = IF cres = "ok" THEN acq \o << res, "recreate" >>
                      ELSE Append(acq, res)
       [] OTHER ->
            /\ acq' = Append(acq, res)
            /\ pc' = "failed"
            /\ err' = << "acquire", res >>
            /\ UNCHANGED << sc, chains, slot >>
  /\ ops' = CASE pc' = "failed"  -> Append(ops, Call(AcquireOp(cur), FALSE))
              [] pc' = "d_begin" -> Append(ops, Call(AcquireOp(cur), TRUE))
              [] OTHER           -> ops
  /\ UNCHANGED << frame, cur, queues, destroyed, rt, binding, ntargets,
                  age, tdlog, leaks, resized, hvars, ivars, xvars, bvars >>

\* frame.begin(&self.device)?; and the commands recorded up to frame.end:
\* they read self.render_target and the descriptor set
DrawBegin(ok) ==
  /\ pc = "d_begin"
  /\ slot' = IF ok THEN [ slot EXCEPT ![cur].cbuf = rt.gen ] ELSE slot
  /\ pc' = IF ok THEN "d_end" ELSE "failed"
  /\ err' = IF ok THEN err ELSE << "begin", "error" >>
  /\ acq' = NoAcquire
  /\ ops' = Append(ops, Call(BeginOp(cur), ok))
  /\ UNCHANGED << frame, cur, queues, destroyed, rt, binding, ntargets, sc,
                  chains, age, tdlog, leaks, resized, hvars, ivars, xvars, bvars >>

\* frame.end(&self.device)?;
DrawEnd(ok) ==
  /\ pc = "d_end"
  /\ pc' = IF ok THEN "d_submit" ELSE "failed"
  /\ err' = IF ok THEN err ELSE << "end", "error" >>
  /\ ops' = Append(ops, Call(EndOp(cur), ok))
  /\ UNCHANGED << frame, cur, slot, queues, destroyed, rt, binding, ntargets,
                  sc, chains, acq, age, tdlog, leaks, resized, hvars, ivars, xvars, bvars >>

\* frame.submit(&self.device, self.queues.graphics)?;
\* queue_submit2 with the slot's command buffer and render_fence
DrawSubmit(ok) ==
  /\ pc = "d_submit"
  /\ slot' = IF ok THEN [ slot EXCEPT ![cur].pending = TRUE ] ELSE slot
  /\ pc' = IF ok THEN "d_present" ELSE "failed"
  /\ err' = IF ok THEN err ELSE << "submit", "error" >>
  /\ ops' = Append(ops, Call(SubmitOp(cur), ok))
  /\ UNCHANGED << frame, cur, queues, destroyed, rt, binding, ntargets, sc,
                  chains, acq, age, tdlog, leaks, resized, hvars, ivars, xvars, bvars >>

\* self.swapchain.present(swapchain_image, ..)?; Ok(())
DrawPresent(res) ==
  /\ pc = "d_present"
  /\ sc' = [ sc EXCEPT !.suboptimal = PresentFlag(@, res) ]
  /\ pc' = IF PresentOk(res) THEN "idle" ELSE "failed"
  /\ err' = IF PresentOk(res) THEN err ELSE << "present", res >>
  /\ ops' = Append(ops, Call(PresentOp(cur), PresentOk(res)))
  /\ UNCHANGED << frame, cur, slot, queues, destroyed, rt, binding, ntargets,
                  chains, acq, age, tdlog, leaks, resized, hvars, ivars, xvars, bvars >>

(* ------------------------------ the GPU ------------------------------- *)
\* the submission of slot i retires: its fence is signaled
Retire(i) ==
  /\ pc # "done"
  /\ slot[i].pending
  /\ slot' = [ slot EXCEPT ![i] = Retired(@) ]
  /\ UNCHANGED << pc, frame, cur, queues, destroyed, rt, binding, ntargets, sc,
                  chains, acq, err, age, tdlog, leaks, ops, resized, hvars, ivars, xvars, bvars >>

(* ----------------------------- resize() ------------------------------- *)
\* resize(), after the chain was recreated with extent surface: the render
\* target is kept, or its records move to a frame slot's queue and a new one
\* is built (bres) into render_target_delete_queue
ResizeTarget(surface, bres) ==
  IF KeepsTarget(rt.extent, surface)
  THEN /\ pc' = "idle"
       /\ UNCHANGED << queues, rt, binding, ntargets, age, err >>
  ELSE /\ ntargets < MaxTargets
       /\ queues' = [ queues EXCEPT
                        ![FQ(ResizeTargetSlot(frame))] = DQAppend(@, queues["rt"]),
                        !["rt"] = DQAppendFrom(queues[FQ(ResizeTargetSlot(frame))], @)
                                    \o Built(ntargets + 1, bres) ]
       /\ age' = [ g \in DOMAIN age |->
                     IF <<"Image", g>> \in Range(queues["rt"]) THEN 0
                     ELSE age[g] ]
       /\ ntargets' = IF bres = "image_failed" THEN ntargets ELSE ntargets + 1
       /\ rt' = IF bres = "ok"
                THEN [ gen |-> ntargets + 1, extent |-> NewTargetExtent(surface) ]
                ELSE rt
       /\ binding' = IF bres = "ok" THEN ntargets + 1 ELSE binding
       /\ pc' = IF bres = "ok" THEN "idle" ELSE "failed"
       /\ err' = IF bres = "ok" THEN err ELSE << "resize", bres >>

\* WindowEvent::Resized: inner.graphics.resize().expect("failed to resize")
Resize(win, caps, cres, bres) ==
  /\ LoopRuns(pc)
  /\ CanCreate(sc, chains, cres)
  /\ sc' = Recreate(sc, chains, win, caps, cres).sc
  /\ chains' = Recreate(sc, chains, win, caps, cres).chains
  /\ slot' = DeviceWaitIdle(slot)
  /\ IF cres = "ok"
     THEN ResizeTarget(CreateExtent(win, caps), bres)
     ELSE /\ pc' = "failed"
          /\ err' = << "resize", cres >>
          /\ UNCHANGED << queues, rt, binding, ntargets, age >>
  /\ resized' = IF cres = "ok" THEN Resized(resized, win) ELSE << >>
  /\ UNCHANGED << frame, cur, destroyed, acq, tdlog, leaks, ops, hvars, ivars, xvars, bvars >>

(* ------------------------- Drop for Graphics -------------------------- *)
\* the event loop exits (CloseRequested) or an expect() panics and unwinds:
\* the App, and with it Graphics, is dropped
DropBegin ==
  /\ pc \in { "idle", "failed" }
  /\ pc' = "drop"
  /\ acq' = NoAcquire
  /\ resized' = << >>
  /\ UNCHANGED << frame, cur, slot, queues, destroyed, rt, binding, ntargets,
                  sc, chains, err, age, tdlog, leaks, ops, hvars, ivars, xvars, bvars >>

\* the next statement of Drop for Graphics
DropStep ==
  /\ pc = "drop"
  /\ Len(tdlog) < Len(DropOrder)
  /\ LET step == DropOrder[Len(tdlog) + 1] IN
       /\ tdlog' = Append(tdlog, step)
       /\ slot' = IF step = "device_wait_idle" THEN DeviceWaitIdle(slot) ELSE slot
       /\ destroyed' = destroyed \o FlushEach(DropFlushes(step), queues)
       /\ queues' = [ q \in QueueIds |->
                        IF q \in Range(DropFlushes(step)) THEN DQNew
                        ELSE queues[q] ]
       /\ sc' = IF step = "destroy_swapchain" THEN DestroyChain(sc) ELSE sc
       /\ chains' = IF step = "destroy_swapchain" THEN DestroyAlive(sc, chains)
                    ELSE chains
  /\ UNCHANGED << pc, frame, cur, rt, binding, ntargets, acq, err,
                  age, leaks, ops, resized, hvars, ivars, xvars, bvars >>

\* the fields of Graphics are dropped: Drop for DeleteQueue reports each
\* queue that still holds records
DropFields ==
  /\ pc = "drop"
  /\ Len(tdlog) = Len(DropOrder)
  /\ leaks' = Cardinality({ q \in QueueIds : DropReports(queues[q]) > 0 })
  /\ pc' = "done"
  /\ UNCHANGED << frame, cur, slot, queues, destroyed, rt, binding, ntargets,
                  sc, chains, acq, err, age, tdlog, ops, resized, hvars, ivars, xvars, bvars >>

Next ==
  \/ DrawNext
  \/ \E res \in WaitResults : DrawWait(res)
  \/ \E win \in WindowExtents, caps \in SurfaceCaps, cres \in CreateResults :
       AcquireCheck(win, caps, cres)
  \/ \E res \in AcquireResults, win \in WindowExtents, caps \in SurfaceCaps,
        cres \in CreateResults : AcquireNative(res, win, caps, cres)
  \/ \E ok \in BOOLEAN : DrawBegin(ok)
  \/ \E ok \in BOOLEAN : DrawEnd(ok)
  \/ \E ok \in BOOLEAN : DrawSubmit(ok)
  \/ \E res \in PresentResults : DrawPresent(res)
  \/ \E i \in Slots : Retire(i)
  \/ \E win \in WindowExtents, caps \in SurfaceCaps, cres \in CreateResults,
        bres \in BuildResults : Resize(win, caps, cres, bres)
  \/ DropBegin
  \/ DropStep
  \/ DropFields

Spec == Init /\ [][Next]_vars

\* the host thread does not stop inside acquire(): a call that is under way
\* makes its next native call and acts on the result
SpecLive ==
  /\ Spec
  /\ WF_vars(\E win \in WindowExtents, caps \in SurfaceCaps,
                cres \in CreateResults : AcquireCheck(win, caps, cres))
  /\ WF_vars(\E res \in AcquireResults, win \in WindowExtents,
                caps \in SurfaceCaps, cres \in CreateResults :
                AcquireNative(res, win, caps, cres))

(* --------------------------- Graphics::new ---------------------------- *)
\* the steps of FrameInFlight::new that can fail
FrameSteps == { "pool_failed", "cbuf_failed", "sema1_failed", "sema2_failed",
                "fence_failed" }
\* FramesInFlight::new: both slots built, or slot i failing at a step
FramesResults == { << "ok" >> } \cup { << i, st >> : i \in Slots, st \in FrameSteps }

\* FrameInFlight::new for slot i: the records it has pushed when it returns
FrameBuilt(i, st) ==
  CASE st = "pool_failed"  -> << >>
    [] st = "cbuf_failed"  -> << <<"CommandPool", i>> >>
    [] st = "sema1_failed" -> << <<"CommandPool", i>> >>
    [] st = "sema2_failed" -> << <<"CommandPool", i>>, <<"Semaphore", 2 * i>> >>
    [] st = "fence_failed" -> << <<"CommandPool", i>>, <<"Semaphore", 2 * i>>,
                                <<"Semaphore", 2 * i + 1>> >>
    [] OTHER               -> FrameRecords(i)

\* FrameInFlight::new for slot i: the objects it has created when it returns
\* (the command buffer belongs to its pool)
FrameObjects(i, st) ==
  CASE st = "pool_failed"  -> { }
    [] st = "cbuf_failed"  -> { <<"CommandPool", i>> }
    [] st = "sema1_failed" -> { <<"CommandPool", i>> }
    [] st = "sema2_failed" -> { <<"CommandPool", i>>, <<"Semaphore", 2 * i>> }
    [] st = "fence_failed" -> { <<"CommandPool", i>>, <<"Semaphore", 2 * i>>,
                                <<"Semaphore", 2 * i + 1>> }
    [] OTHER               -> { <<"CommandPool", i>>, <<"Semaphore", 2 * i>>,
                                <<"Semaphore", 2 * i + 1>>, <<"Fence", i>> }

\* FramesInFlight::new: what global_delete_queue holds when it returns
FramesBuilt(fres) ==
  IF fres = << "ok" >> THEN FrameRecords(0) \o FrameRecords(1)
  ELSE IF fres[1] = 0 THEN FrameBuilt(0, fres[2])
  ELSE FrameRecords(0) \o FrameBuilt(1, fres[2])

DescriptorResults == { "ok", "pool_failed", "layout_failed", "set_failed" }
\* DescriptorPool build, DescriptorSetLayout build, descriptor_pool.alloc
DescriptorsBuilt(dres) ==
  CASE dres = "pool_failed"   -> << >>
    [] dres = "layout_failed" -> << <<"DescriptorPool", 0>> >>
    [] OTHER -> << <<"DescriptorPool", 0>>, <<"DescriptorSetLayout", 0>> >>

PipelineResults == { "ok", "layout_failed", "shader_failed", "pipeline_failed" }
\* PipelineLayout::new and ComputePipeline::new push to global_delete_queue
PipelineBuilt(pres) ==
  CASE pres = "layout_failed"   -> << >>
    [] pres = "shader_failed"   -> << <<"PipelineLayout", 0>> >>
    [] pres = "pipeline_failed" -> << <<"PipelineLayout", 0>> >>
    [] OTHER -> << <<"PipelineLayout", 0>>, <<"Pipeline", 0>> >>
\* Shader::new pushes to init_delete_queue
ShaderBuilt(pres) ==
  IF pres \in { "ok", "pipeline_failed" } THEN << <<"ShaderModule", 0>> >>
  ELSE << >>

\* Graphics::new has been called for a window of extent win and has made its
\* two local queues
InitNew ==
  /\ pc = "new_boot"
  /\ frame = 0
  /\ cur = 0
  /\ slot = [ i \in Slots |-> [ fence |-> FALSE, pending |-> FALSE, cbuf |-> 0 ] ]
  /\ queues = [ q \in QueueIds |-> DQNew ]
  /\ destroyed = << >>
  /\ \E win \in WindowExtents : rt = [ gen |-> 0, extent |-> win ]
  /\ binding = 0
  /\ ntargets = 0
  /\ sc = [ inner |-> 0, suboptimal |-> FALSE, extent |-> << 0, 0 >>,
            images |-> 0 ]
  /\ chains = { }
  /\ acq = NoAcquire
  /\ err = << >>
  /\ age = [ g \in 1 .. MaxTargets |-> -1 ]
  /\ tdlog = << >>
  /\ leaks = 0
  /\ ops = << >>
  /\ resized = << >>
  /\ HarnessOff
  /\ ImmOff
  /\ ExtOff
  /\ BufOff

\* create_instance, DebugUtils::new, Surface::new, pick_gpu, create_device
NewBootstrap(ok) ==
  /\ pc = "new_boot"
  /\ pc' = IF ok THEN "new_swapchain" ELSE "new_failed"
  /\ err' = IF ok THEN err ELSE << "new_boot", "error" >>
  /\ UNCHANGED << frame, cur, slot, queues, destroyed, rt, binding, ntargets,
                  sc, chains, acq, age, tdlog, leaks, ops, resized, hvars, ivars, xvars, bvars >>

\* Swapchain::new(.., extent, window)?  and  create_allocator(..)?
NewSwapchain(caps, cres, aok) ==
  /\ pc = "new_swapchain"
  /\ sc' = IF cres = "ok" THEN Created(sc, chains, rt.extent, caps) ELSE sc
  /\ chains' = IF cres = "query_failed" THEN chains
               ELSE chains \cup { NewChain(sc, chains) }
  /\ pc' = IF cres = "ok" /\ aok THEN "new_frames" ELSE "new_failed"
  /\ err' = IF cres # "ok" THEN << "new_swapchain", cres >>
            ELSE IF ~aok THEN << "new_allocator", "error" >> ELSE err
  /\ UNCHANGED << frame, cur, slot, queues, destroyed, rt, binding, ntargets,
                  acq, age, tdlog, leaks, ops, resized, hvars, ivars, xvars, bvars >>

\* FramesInFlight::new(&device, &queue_families, &mut global_delete_queue)?
NewFrames(fres) ==
  /\ pc = "new_frames"
  /\ queues' = [ queues EXCEPT !["global"] = @ \o FramesBuilt(fres) ]
  /\ slot' = [ i \in Slots |->
                IF <<"Fence", i>> \in Range(FramesBuilt(fres))
                THEN [ slot[i] EXCEPT !.fence = NewFence ] ELSE slot[i] ]
  /\ pc' = IF fres = << "ok" >> THEN "new_target" ELSE "new_failed"
  /\ err' = IF fres = << "ok" >> THEN err ELSE << "new_frames", fres >>
  /\ UNCHANGED << frame, cur, destroyed, rt, binding, ntargets, sc, chains,
                  acq, age, tdlog, leaks, ops, resized, hvars, ivars, xvars, bvars >>

\* let mut render_target_delete_queue = DeleteQueue::new();
\* Self::create_render_image(.., &mut render_target_delete_queue, extent)?
NewRenderTarget(bres) ==
  /\ pc = "new_target"
  /\ queues' = [ queues EXCEPT !["rt"] = @ \o Built(ntargets + 1, bres) ]
  /\ ntargets' = IF bres = "image_failed" THEN ntargets ELSE ntargets + 1
  /\ rt' = IF bres = "ok" THEN [ rt EXCEPT !.gen = ntargets + 1 ] ELSE rt
  /\ pc' = IF bres = "ok" THEN "new_descriptors" ELSE "new_failed"
  /\ err' = IF bres = "ok" THEN err ELSE << "new_target", bres >>
  /\ UNCHANGED << frame, cur, slot, destroyed, binding, sc, chains, acq, age,
                  tdlog, leaks, ops, resized, hvars, ivars, xvars, bvars >>

\* the descriptor pool, the set layout, the set, and the write of the render
\* target to binding 0
NewDescriptors(dres) ==
  /\ pc = "new_descriptors"
  /\ queues' = [ queues EXCEPT !["global"] = @ \o DescriptorsBuilt(dres) ]
  /\ binding' = IF dres = "ok" THEN rt.gen ELSE binding
  /\ pc' = IF dres = "ok" THEN "new_pipeline" ELSE "new_failed"
  /\ err' = IF dres = "ok" THEN err ELSE << "new_descriptors", dres >>
  /\ UNCHANGED << frame, cur, slot, destroyed, rt, ntargets, sc, chains, acq,
                  age, tdlog, leaks, ops, resized, hvars, ivars, xvars, bvars >>

\* PipelineLayout::new, Shader::new, ComputePipeline::new,
\* init_delete_queue.flush(..), Ok(Self { .. })
NewPipeline(pres) ==
  /\ pc = "new_pipeline"
  /\ queues' = [ queues EXCEPT
                   !["global"] = @ \o PipelineBuilt(pres),
                   !["init"] = IF pres = "ok" THEN DQNew
                               ELSE @ \o ShaderBuilt(pres) ]
  /\ destroyed' = IF pres = "ok"
                  THEN destroyed \o DQFlushOrder(queues["init"] \o ShaderBuilt(pres))
                  ELSE destroyed
  /\ pc' = IF pres = "ok" THEN "idle" ELSE "new_failed"
  /\ err' = IF pres = "ok" THEN err ELSE << "new_pipeline", pres >>
  /\ UNCHANGED << frame, cur, slot, rt, binding, ntargets, sc, chains, acq,
                  age, tdlog, leaks, ops, resized, hvars, ivars, xvars, bvars >>

\* new() returns the Err: its locals go out of scope, the queues among them
NewUnwind ==
  /\ pc = "new_failed"
  /\ leaks' = Cardinality({ q \in QueueIds : DropReports(queues[q]) > 0 })
  /\ pc' = "new_dropped"
  /\ UNCHANGED << frame, cur, slot, queues, destroyed, rt, binding, ntargets,
                  sc, chains, acq, err, age, tdlog, ops, resized, hvars, ivars, xvars, bvars >>

NextNew ==
  \/ \E ok \in BOOLEAN : NewBootstrap(ok)
  \/ \E caps \in SurfaceCaps, cres \in CreateResults, aok \in BOOLEAN :
       NewSwapchain(caps, cres, aok)
  \/ \E fres \in FramesResults : NewFrames(fres)
  \/ \E bres \in BuildResults : NewRenderTarget(bres)
  \/ \E dres \in DescriptorResults : NewDescriptors(dres)
  \/ \E pres \in PipelineResults : NewPipeline(pres)
  \/ NewUnwind
  \/ DrawNext
  \/ \E res \in WaitResults : DrawWait(res)
  \/ \E win \in WindowExtents, caps \in SurfaceCaps, cres \in CreateResults :
       AcquireCheck(win, caps, cres)
  \/ \E res \in AcquireResults, win \in WindowExtents, caps \in SurfaceCaps,
        cres \in CreateResults : AcquireNative(res, win, caps, cres)
  \/ \E ok \in BOOLEAN : DrawBegin(ok)
  \/ \E ok \in BOOLEAN : DrawEnd(ok)
  \/ \E ok \in BOOLEAN : DrawSubmit(ok)
  \/ \E res \in PresentResults : DrawPresent(res)
  \/ \E i \in Slots : Retire(i)
  \/ \E win \in WindowExtents, caps \in SurfaceCaps, cres \in CreateResults,
        bres \in BuildResults : Resize(win, caps, cres, bres)
  \/ DropBegin
  \/ DropStep
  \/ DropFields

\* Graphics::new followed by the life of the Graphics it returns
SpecNew == InitNew /\ [][NextNew]_vars

\* the state in which Graphics::new returns Ok is an initial state of Spec
NewReturnsInit ==
  (pc = "idle" /\ ntargets = 1 /\ frame = 0 /\ resized = << >>
     /\ ops = << >> /\ queues["f0"] = << >> /\ queues["f1"] = << >>) =>
    \E win \in WindowExtents, caps \in SurfaceCaps :
      /\ queues = [ q \in QueueIds |->
                      CASE q = "global" -> GlobalRecords
                        [] q = "rt"     -> ImageRecords(1)
                        [] OTHER        -> DQNew ]
      /\ destroyed = << <<"ShaderModule", 0>> >>
      /\ rt = [ gen |-> 1, extent |-> win ]
      /\ binding = 1
      /\ sc = [ inner |-> 1, suboptimal |-> FALSE,
                extent |-> CreateExtent(win, caps), images |-> 1 ]
      /\ chains = { 1 }
      /\ \A i \in Slots : slot[i].fence = NewFence

(* --------------------- a DeleteQueue on its own ----------------------- *)
Tags == { "Fence", "CommandPool", "Semaphore", "Image", "Allocation" }

\* queue.push(record)
HPush(tag) ==
  /\ hpc \in { "open", "appended" }
  /\ Len(hq) + Len(hother) < MaxPush
  /\ hq' = DQPush(hq, tag)
  /\ hpushed' = Append(hpushed, tag)
  /\ hbase' = << >> /\ hmoved' = << >>
  /\ hpc' = "open"
  /\ UNCHANGED << hother, hlog, happ, hfailed, hleak, gvars, ivars, xvars, bvars >>

\* other.push(record)
HPushOther(tag) ==
  /\ hpc \in { "open", "appended" }
  /\ Len(hq) + Len(hother) < MaxPush
  /\ hother' = DQPush(hother, tag)
  /\ hbase' = << >> /\ hmoved' = << >>
  /\ hpc' = "open"
  /\ UNCHANGED << hq, hlog, hpushed, happ, hfailed, hleak, gvars, ivars, xvars, bvars >>

\* queue.append(&mut other)
HAppend ==
  /\ hpc \in { "open", "appended" }
  /\ hq' = DQAppend(hq, hother)
  /\ hother' = DQAppendFrom(hq, hother)
  /\ hpushed' = hpushed \o hother
  /\ hbase' = hq /\ hmoved' = hother
  /\ hpc' = "appended"
  /\ UNCHANGED << hlog, happ, hfailed, hleak, gvars, ivars, xvars, bvars >>

\* the positions of q whose destroy call can return Err
Failable(q) == { p \in 1 .. Len(q) : DestroyCanFail(q[p]) }

\* queue.flush(device, alloc), the destroy calls of the records at the
\* positions fails returning Err
HFlush(fails) ==
  /\ hpc \in { "open", "appended" }
  /\ hlog' = DQFlushAttempts(hq, fails)
  /\ hfailed' = { k \in 1 .. Len(hlog') : (Len(hq) + 1 - k) \in fails }
  /\ hq' = DQNew
  /\ happ' = (hpc = "appended")
  /\ hpc' = "flushed"
  /\ UNCHANGED << hother, hpushed, hbase, hmoved, hleak, gvars, ivars, xvars, bvars >>

\* the queue goes out of scope as it is
HDrop ==
  /\ hpc \in { "open", "appended", "flushed" }
  /\ hleak' = DropReports(hq)
  /\ hpc' = "dropped"
  /\ UNCHANGED << hq, hother, hlog, hpushed, hbase, hmoved, happ, hfailed,
                  gvars, ivars, xvars, bvars >>

\* DeleteQueue::new makes another queue in place of the flushed or dropped one
HNew ==
  /\ hpc \in { "flushed", "dropped" }
  /\ hq' = DQNew
  /\ hlog' = << >>
  /\ hpushed' = << >>
  /\ hbase' = << >> /\ hmoved' = << >>
  /\ happ' = FALSE
  /\ hfailed' = { }
  /\ hleak' = 0
  /\ hpc' = "open"
  /\ UNCHANGED << hother, gvars, ivars, xvars, bvars >>

InitDQ ==
  /\ GraphicsInit(<<64, 64>>, [minw |-> 1, minh |-> 1, maxw |-> 512, maxh |-> 512])
  /\ hq = DQNew /\ hother = DQNew /\ hlog = << >> /\ hpushed = << >>
  /\ hbase = << >> /\ hmoved = << >> /\ happ = FALSE /\ hfailed = { }
  /\ hleak = 0 /\ hpc = "open"
  /\ ImmOff
  /\ ExtOff
  /\ BufOff

NextDQ ==
  \/ \E tag \in Tags : HPush(tag)
  \/ \E tag \in Tags : HPushOther(tag)
  \/ HAppend
  \/ \E fails \in SUBSET Failable(hq) : HFlush(fails)
  \/ HDrop
  \/ HNew

SpecDQ == InitDQ /\ [][NextDQ]_vars

(* ============================== claims ================================ *)

(* ----------------------------- Immediate ------------------------------ *)
\* Immediate::new: create_fence with default flags
ImmNewFence == FALSE

\* a fence wait that returns without looking at the fence
ImmWaitPossible_Always(res, fence) == TRUE
\* what the closure's result is ignored for
ClosureNext_Continues(r) == "end"

ImmWaitResults == { "ok", "timeout", "error" }
\* wait_for_fences(fence, true, 1_000_000_000): succeeds only on a signaled
\* fence, times out only on one that stayed unsignaled for the second
ImmWaitPossible(res, fence) ==
  CASE res = "ok"      -> fence
    [] res = "timeout" -> ~fence
    [] OTHER           -> TRUE

\* what the closure may return: Ok(value) or Err
ClosureResults == { << "ok", 1 >>, << "ok", 2 >>, << "err", "closure" >> }
\* let val = f(self.cbuf)?;
ClosureNext(r) == IF r[1] = "ok" THEN "end" ELSE "idle"

\* the calls of submit(), with the semaphores and the fence handed to each
ImmOp(name, res) ==
  [ op |-> name, waits |-> { }, signals |-> { },
    fence |-> IF name \in { "reset_fences", "queue_submit2", "wait_for_fences" }
              THEN "imm" ELSE "none",
    cbuf |-> IF name \in { "reset_command_buffer", "begin_command_buffer",
                           "closure", "end_command_buffer", "queue_submit2" }
             THEN "imm" ELSE "none",
    res |-> res ]

\* the `?` after a native call: go on, or return the error
ImmStep(name, ok, next) ==
  /\ icalls' = Append(icalls, ImmOp(name, IF ok THEN "ok" ELSE "error"))
  /\ ipc' = IF ok THEN next ELSE "idle"
  /\ irets' = IF ok THEN irets ELSE Append(irets, << "err", name >>)

InitImm ==
  /\ GraphicsInit(<<64, 64>>, [minw |-> 1, minh |-> 1, maxw |-> 512, maxh |-> 512])
  /\ HarnessOff
  /\ ipc = "idle" /\ ifence = ImmNewFence /\ ipending = FALSE
  /\ icbuf = "initial" /\ icalls = << >> /\ irets = << >> /\ isubmits = 0
  /\ iqueued = 0 /\ ival = 0
  /\ ExtOff
  /\ BufOff

\* the owner calls imm.submit(device, f); it does so only while no earlier
\* submission of the command buffer is still executing
ImmCall ==
  /\ ipc = "idle"
  /\ ~ipending
  /\ isubmits < MaxSubmits
  /\ ipc' = "reset_fence"
  /\ icalls' = << >>
  /\ isubmits' = isubmits + 1
  /\ ival' = 0
  /\ UNCHANGED << ifence, ipending, icbuf, irets, iqueued, gvars, hvars, xvars, bvars >>

\* device.reset_fences(&[self.fence])?
ImmResetFence(ok) ==
  /\ ipc = "reset_fence"
  /\ ImmStep("reset_fences", ok, "reset_cbuf")
  /\ ifence' = IF ok THEN FALSE ELSE ifence
  /\ UNCHANGED << ipending, icbuf, isubmits, iqueued, ival, gvars, hvars, xvars, bvars >>

\* device.reset_command_buffer(self.cbuf, ..)?
ImmResetCbuf(ok) ==
  /\ ipc = "reset_cbuf"
  /\ ImmStep("reset_command_buffer", ok, "begin")
  /\ icbuf' = IF ok THEN "initial" ELSE icbuf
  /\ UNCHANGED << ifence, ipending, isubmits, iqueued, ival, gvars, hvars, xvars, bvars >>

\* device.begin_command_buffer(self.cbuf, ONE_TIME_SUBMIT)?
ImmBegin(ok) ==
  /\ ipc = "begin"
  /\ ImmStep("begin_command_buffer", ok, "closure")
  /\ icbuf' = IF ok THEN "recording" ELSE icbuf
  /\ UNCHANGED << ifence, ipending, isubmits, iqueued, ival, gvars, hvars, xvars, bvars >>

\* let val = f(self.cbuf)?;
ImmClosure(r) ==
  /\ ipc = "closure"
  /\ icalls' = Append(icalls, ImmOp("closure", IF r[1] = "ok" THEN "ok" ELSE "error"))
  /\ ipc' = ClosureNext(r)
  /\ irets' = IF ClosureNext(r) = "idle" THEN Append(irets, r) ELSE irets
  /\ ival' = IF r[1] = "ok" THEN r[2] ELSE ival
  /\ UNCHANGED << ifence, ipending, icbuf, isubmits, iqueued, gvars, hvars, xvars, bvars >>

\* device.end_command_buffer(self.cbuf)?
ImmEnd(ok) ==
  /\ ipc = "end"
  /\ ImmStep("end_command_buffer", ok, "submit")
  /\ icbuf' = IF ok THEN "executable" ELSE "invalid"
  /\ UNCHANGED << ifence, ipending, isubmits, iqueued, ival, gvars, hvars, xvars, bvars >>

\* device.queue_submit2(self.queue, [SubmitInfo2 { cbuf }], self.fence)?
ImmQueueSubmit(ok) ==
  /\ ipc = "submit"
  /\ ImmStep("queue_submit2", ok, "wait")
  /\ ipending' = IF ok THEN TRUE ELSE ipending
  /\ icbuf' = IF ok THEN "pending" ELSE icbuf
  /\ iqueued' = IF ok THEN iqueued + 1 ELSE iqueued
  /\ UNCHANGED << ifence, isubmits, ival, gvars, hvars, xvars, bvars >>

\* device.wait_for_fences([self.fence], true, 1_000_000_000)?;  Ok(val)
ImmWait(res) ==
  /\ ipc = "wait"
  /\ ImmWaitPossible(res, ifence)
  /\ icalls' = Append(icalls, ImmOp("wait_for_fences", res))
  /\ ipc' = "idle"
  /\ irets' = Append(irets, IF res = "ok" THEN << "ok", ival >>
                                           ELSE << "err", res >>)
  /\ UNCHANGED << ifence, ipending, icbuf, isubmits, iqueued, ival, gvars,
                  hvars, xvars, bvars >>

\* the queue finishes the batch: the fence is signaled, and a command buffer
\* recorded with ONE_TIME_SUBMIT becomes invalid
ImmRetire ==
  /\ ipending
  /\ ipending' = FALSE
  /\ ifence' = TRUE
  /\ icbuf' = "invalid"
  /\ UNCHANGED << ipc, icalls, irets, isubmits, iqueued, ival, gvars, hvars, xvars, bvars >>

NextImm ==
  \/ ImmCall
  \/ \E ok \in BOOLEAN : ImmResetFence(ok)
  \/ \E ok \in BOOLEAN : ImmResetCbuf(ok)
  \/ \E ok \in BOOLEAN : ImmBegin(ok)
  \/ \E r \in ClosureResults : ImmClosure(r)
  \/ \E ok \in BOOLEAN : ImmEnd(ok)
  \/ \E ok \in BOOLEAN : ImmQueueSubmit(ok)
  \/ \E res \in ImmWaitResults : ImmWait(res)
  \/ ImmRetire

SpecImm == InitImm /\ [][NextImm]_vars

(* ----------------------- Swapchain on its own ------------------------- *)
InitExtent ==
  /\ GraphicsInit(<<64, 64>>, [minw |-> 1, minh |-> 1, maxw |-> 512, maxh |-> 512])
  /\ HarnessOff
  /\ ImmOff
  /\ ExtOff
  /\ BufOff

\* Swapchain::new (no chain yet) or recreate(): destroy(), then create() with
\* the extent req while the surface reports caps
ExtRecreate(req, caps, cres) ==
  /\ xpc # "destroyed"
  /\ xpc = "none" => cres = "ok"
  /\ CanCreate(xsc, xchains, cres)
  /\ xsc' = Recreate(xsc, xchains, req, caps, cres).sc
  /\ xchains' = Recreate(xsc, xchains, req, caps, cres).chains
  /\ xreq' = req
  /\ xcaps' = caps
  /\ xpc' = IF cres = "ok" THEN "live" ELSE "failed"
  /\ UNCHANGED << xacq, gvars, hvars, ivars, bvars >>

\* one round of the loop of acquire() on an existing Swapchain: recreate
\* first if the flag is set (c1), acquire_next_image(self.inner, ..) with
\* result res, recreate on out-of-date (c2); on a null handle the native
\* call may report anything
ExtAcquire(res, c1, c2) ==
  /\ xpc \in { "live", "failed" }
  /\ LET r1 == IF xsc.suboptimal
               THEN Recreate(xsc, xchains, xreq, xcaps, c1)
               ELSE [ ok |-> TRUE, sc |-> xsc, chains |-> xchains ]
         r2 == IF RecreatesOn(res)
               THEN Recreate(r1.sc, r1.chains, xreq, xcaps, c2)
               ELSE [ ok |-> res \in { "ok", "ok_suboptimal", "not_ready" },
                      sc |-> [ r1.sc EXCEPT !.suboptimal =
                                 IF res \in { "ok", "ok_suboptimal" }
                                 THEN AcquireFlag(@, res) ELSE @ ],
                      chains |-> r1.chains ]
     IN
       /\ xsc.suboptimal => CanCreate(xsc, xchains, c1)
       /\ ~xsc.suboptimal => c1 = "ok"
       /\ (r1.ok /\ RecreatesOn(res)) => CanCreate(r1.sc, r1.chains, c2)
       /\ ~(r1.ok /\ RecreatesOn(res)) => c2 = "ok"
       /\ ~r1.ok => res = "ok"
       /\ xsc' = IF r1.ok THEN r2.sc ELSE r1.sc
       /\ xchains' = IF r1.ok THEN r2.chains ELSE r1.chains
       /\ xacq' = IF r1.ok THEN r1.sc.inner ELSE xacq
       /\ xpc' = CASE ~r1.ok -> "failed"
                   [] xsc.suboptimal \/ RecreatesOn(res) ->
                        IF r2.ok THEN "live" ELSE "failed"
                   [] OTHER -> xpc
  /\ UNCHANGED << xreq, xcaps, gvars, hvars, ivars, bvars >>

\* Swapchain::destroy(), as Drop for Graphics calls it
ExtDestroy ==
  /\ xpc \in { "live", "failed" }
  /\ xsc' = DestroyChain(xsc)
  /\ xchains' = DestroyAlive(xsc, xchains)
  /\ xpc' = "destroyed"
  /\ UNCHANGED << xreq, xcaps, xacq, gvars, hvars, ivars, bvars >>

NextExtent ==
  \/ \E req \in ExtRequests, caps \in ExtCaps, cres \in CreateResults :
       ExtRecreate(req, caps, cres)
  \/ \E res \in AcquireResults, c1 \in CreateResults, c2 \in CreateResults :
       ExtAcquire(res, c1, c2)
  \/ ExtDestroy

SpecExtent == InitExtent /\ [][NextExtent]_vars

(* ------------------------------- Buffer ------------------------------- *)
Bytes == { 0, 1 }
ByteSeqs(n) == UNION { [ 1 .. k -> Bytes ] : k \in 0 .. n }
\* gpu_allocator::MemoryLocation values the builder is given
Locations == { "GpuOnly", "CpuToGpu", "GpuToCpu" }
\* allocation.mapped_ptr(): the host-visible locations are always mapped, a
\* GpuOnly allocation is mapped when its memory type happens to be host-visible
MappedOutcomes(location) == IF location = "GpuOnly" THEN BOOLEAN ELSE { TRUE }
BufResults == { "ok", "create_failed", "alloc_failed", "bind_failed" }

\* an as_slice that shows the whole mapped region whatever the size
AsSlice_WholeRegion(buf, mem) ==
  IF buf.ptr THEN << "Some", mem.bytes >> ELSE << "None" >>

\* BufferBuilder::build: the records it has pushed when it returns
BufferBuilt(res) ==
  CASE res = "create_failed" -> << >>
    [] res = "alloc_failed"  -> << <<"Buffer", 0>> >>
    [] OTHER                 -> << <<"Buffer", 0>>, <<"Allocation", 0>> >>

\* Ok(Buffer { buffer, size: self.capacity as u64, ptr: mapped_ptr() })
NewBuffer(builder, mem) == [ size |-> builder.capacity, ptr |-> mem.mapped ]

\* as_slice / as_slice_mut: self.ptr.map(|ptr| from_raw_parts(ptr, self.size))
AsSlice(buf, mem) ==
  IF buf.ptr THEN << "Some", SubSeq(mem.bytes, 1, buf.size) >> ELSE << "None" >>

\* the region after data has been stored at the start of the mutable view
Stored(mem, data) ==
  [ mem EXCEPT !.bytes = data \o SubSeq(@, Len(data) + 1, Len(@)) ]

InitBuf ==
  /\ GraphicsInit(<<64, 64>>, [minw |-> 1, minh |-> 1, maxw |-> 512, maxh |-> 512])
  /\ HarnessOff
  /\ ImmOff
  /\ ExtOff
  /\ BufOff

\* Buffer::builder().capacity(c).location(l).build(device, alloc, queue);
\* the allocator hands out a region of at least c bytes, mapped or not, with
\* whatever bytes it held before
BufBuild(c, l, res, mapped, region) ==
  /\ bpc = "none"
  /\ mapped \in MappedOutcomes(l)
  /\ Len(region) >= c
  /\ bbuilder' = [ capacity |-> c, location |-> l ]
  /\ bq' = bq \o BufferBuilt(res)
  /\ bmem' = IF res \in { "ok", "bind_failed" }
             THEN [ mapped |-> mapped, bytes |-> IF mapped THEN region ELSE << >> ]
             ELSE bmem
  /\ bbuf' = IF res = "ok" THEN NewBuffer(bbuilder', bmem') ELSE bbuf
  /\ bpc' = IF res = "ok" THEN "built" ELSE "failed"
  /\ UNCHANGED << bwrote, bread, gvars, hvars, ivars, xvars >>

\* buffer.as_slice_mut().map(|view| view[..N].copy_from_slice(data))
BufWrite(data) ==
  /\ bpc = "built"
  /\ bbuf.ptr
  /\ Len(data) <= bbuf.size
  /\ bmem' = Stored(bmem, data)
  /\ bwrote' = data
  /\ bread' = << "unread" >>
  /\ UNCHANGED << bpc, bbuilder, bbuf, bq, gvars, hvars, ivars, xvars >>

\* buffer.as_slice()
BufRead ==
  /\ bpc = "built"
  /\ bread' = AsSlice(bbuf, bmem)
  /\ UNCHANGED << bpc, bbuilder, bbuf, bmem, bq, bwrote, gvars, hvars, ivars,
                  xvars >>

\* the queue is flushed: the allocation is freed and the buffer destroyed
\* while the Buffer wrapper lives on
BufFlush ==
  /\ bpc \in { "built", "failed" }
  /\ bq' = DQNew
  /\ bpc' = IF bpc = "built" THEN "freed" ELSE "none"
  /\ bread' = << "unread" >>
  /\ bwrote' = << >>
  /\ UNCHANGED << bbuilder, bbuf, bmem, gvars, hvars, ivars, xvars >>

\* buffer.as_slice() on the wrapper of a freed allocation: a view of the
\* recorded size over memory that holds anything
BufReadFreed(garbage) ==
  /\ bpc = "freed"
  /\ Len(garbage) = bbuf.size
  /\ bread' = IF bbuf.ptr THEN << "Some", garbage >> ELSE << "None" >>
  /\ UNCHANGED << bpc, bbuilder, bbuf, bmem, bq, bwrote, gvars, hvars, ivars,
                  xvars >>

NextBuf ==
  \/ \E c \in 0 .. MaxCapacity, l \in Locations, res \in BufResults,
        mapped \in BOOLEAN, region \in ByteSeqs(MaxCapacity + 1) :
       BufBuild(c, l, res, mapped, region)
  \/ \E data \in ByteSeqs(MaxCapacity) : BufWrite(data)
  \/ BufRead
  \/ BufFlush
  \/ \E garbage \in ByteSeqs(MaxCapacity) : BufReadFreed(garbage)

SpecBuf == InitBuf /\ [][NextBuf]_vars

\* C1: after any sequence of pushes followed by one flush, the destroy calls
\* are exactly the pushed records in reverse order of pushing.
C1_FlushReversesPushes ==
  hpc = "flushed" =>
    /\ Len(hlog) = Len(hpushed)
    /\ \A k \in 1 .. Len(hlog) : hlog[k] = hpushed[Len(hpushed) + 1 - k]
    /\ hq = << >>

C1_Witness ==
  /\ hpc = "flushed"
  /\ hpushed = << "Fence", "CommandPool", "Semaphore" >>
  /\ hlog = << "Semaphore", "CommandPool", "Fence" >>

C3_WaitFlushesAfterFence ==
  [][ (pc = "d_wait" /\ pc' # "d_wait") =>
        /\ pc' = "failed" =>
             /\ destroyed' = destroyed
             /\ queues' = queues
             /\ err'[1] = "wait"
        /\ pc' # "failed" =>
             /\ slot[cur].fence
             /\ ~slot'[cur].fence
             /\ queues'[FQ(cur)] = << >>
             /\ destroyed' = destroyed \o Reverse(queues[FQ(cur)])
        /\ destroyed' # destroyed => pc' = "acq_check" ]_vars

\* wait() failed on a slot whose queue holds a replaced render target
C3_Witness ==
  /\ pc = "failed"
  /\ err = << "wait", "reset_failed" >>
  /\ Range(ImageRecords(1)) \subseteq Range(queues[FQ(cur)])
  /\ Range(ImageRecords(1)) \cap Range(destroyed) = { }

\* C4: while draw() hands the slot's semaphore to acquire and resets and
\* re-records the slot's command buffer, the slot has no submission pending:
\* its wait() returned Ok in this draw() and reset the fence.
C4_ReuseAfterWait ==
  pc \in { "acq_check", "acq_native", "d_begin", "d_end", "d_submit" } =>
    /\ ~slot[cur].pending
    /\ ~slot[cur].fence

\* slot 0 is re-recorded for the second time, slot 1 still executing
C4_Witness ==
  /\ pc = "d_end"
  /\ cur = 0
  /\ slot[1].pending
  /\ slot[0].cbuf # 0

\* C5: the records of a render target replaced by resize() sit in the queue of
\* the slot the next draw() does not wait on; after the first draw() following
\* the resize none of them is destroyed, after the second all of them are.
C5_OneFrameGrace ==
  \A g \in 1 .. MaxTargets :
    /\ (age[g] = 0 /\ pc = "idle") =>
         /\ Range(ImageRecords(g)) \subseteq Range(queues[FQ(PreviousIndex(frame))])
         /\ PreviousIndex(frame) # NextIndex(frame)
    /\ age[g] \in { 0, 1 } => Range(ImageRecords(g)) \cap Range(destroyed) = { }
    /\ age[g] = 2 => Range(ImageRecords(g)) \subseteq Range(destroyed)

\* the first draw() after the resize has passed and left the records alone
C5_WitnessGrace ==
  /\ pc = "idle"
  /\ age[1] = 1
  /\ <<"Image", 1>> \notin Range(destroyed)

\* the second draw() after a resize has destroyed the replaced target
C5_Witness ==
  /\ age[1] = 2
  /\ <<"Image", 1>> \in Range(destroyed)
  /\ pc \in { "acq_check", "idle" }

\* C6: after teardown following successful draw() and resize() calls only,
\* no deletion queue holds a record, none was dropped unflushed, and every
\* record ever created has been destroyed.
C6_TeardownFlushesAll ==
  (pc = "done" /\ err = << >>) =>
    /\ \A q \in QueueIds : queues[q] = << >>
    /\ leaks = 0
    /\ Range(GlobalRecords) \subseteq Range(destroyed)
    /\ \A g \in 1 .. ntargets : Range(ImageRecords(g)) \subseteq Range(destroyed)

Did(step) == step \in Range(tdlog)

\* C7: teardown waits for the device to idle before any flush, flushes the
\* render-target queue before the global queue, and destroys the swapchain,
\* the device, the surface and the debug messenger in that order, after both
\* flushes.
C7_TeardownOrder ==
  /\ Did("flush_render_target") =>
       Did("device_wait_idle") /\ \A i \in Slots : ~slot[i].pending
  /\ Did("flush_global") =>
       Did("flush_render_target") /\ queues["rt"] = << >>
  /\ Did("destroy_swapchain") =>
       Did("flush_global") /\ queues["global"] = << >> /\ queues["rt"] = << >>
  /\ Did("destroy_device") => Did("destroy_swapchain") /\ sc.inner = 0
  /\ Did("destroy_surface") => Did("destroy_device")
  /\ Did("destroy_debug_utils") => Did("destroy_surface")
  /\ (Range(ImageRecords(rt.gen)) \cap Range(destroyed) # { } /\ pc = "drop")
       => Did("device_wait_idle")

\* teardown ran to its end after a frame had been submitted
C7_Witness ==
  /\ pc = "done"
  /\ tdlog = DropOrder
  /\ Len(tdlog) = 8
  /\ \E i \in Slots : <<"Fence", i>> \in Range(destroyed)
  /\ frame = 1

\* C8: every native acquire attempt is made with the stale flag clear; when
\* the flag is set at the top of the loop, a recreation that clears it and
\* installs a new chain comes before the attempt.
C8_AcquireWithFlagClear ==
  /\ [](pc = "acq_native" => ~sc.suboptimal)
  /\ [][ (pc = "acq_check" /\ sc.suboptimal /\ pc' = "acq_native") =>
           /\ Recreations(acq') = Recreations(acq) + 1
           /\ ~sc'.suboptimal
           /\ sc'.inner # 0
           /\ sc'.inner # sc.inner ]_vars

\* acquire() was entered with the flag set and is about to call the driver
C8_Witness ==
  /\ pc = "acq_native"
  /\ acq = << "recreate" >>

OutOfDateThrice ==
  /\ pc = "d_begin"
  /\ Natives(acq) \in { << "out_of_date", "out_of_date", "out_of_date", r >> :
                          r \in { "ok", "ok_suboptimal" } }

\* C9 as stated: three out-of-date reports, then success, cost one recreation.
C9_OneRecreation == OutOfDateThrice => Recreations(acq) = 1

\* C9 amended: acquire() recreates after each out-of-date report, so three
\* reports followed by success cost three recreations (one more when the stale
\* flag was set on entry), and the image returned belongs to the last chain.
C9_RecreationPerOutOfDate ==
  OutOfDateThrice =>
    /\ Recreations(acq) = (IF acq[1] = "recreate" THEN 4 ELSE 3)
    /\ \A k \in 1 .. Len(acq) - 1 :
         acq[k] = "out_of_date" => acq[k + 1] = "recreate"
    /\ sc.inner # 0
    /\ sc.images = sc.inner
    /\ chains = { sc.inner }

\* entered with the flag clear: out-of-date, recreate, three times, then ok
C9_Witness ==
  /\ pc = "d_begin"
  /\ acq = << "out_of_date", "recreate", "out_of_date", "recreate",
              "out_of_date", "recreate", "ok" >>

\* C10: present() does not fail the frame on a suboptimal or out-of-date
\* result of queue_present.
C10_PresentAbsorbsStale ==
  (Len(err) = 2 /\ err[1] = "present") =>
    err[2] \notin { "suboptimal", "out_of_date" }

Last(s) == s[Len(s)]

\* C11: a native acquire that succeeds with the suboptimal bit ends acquire()
\* with the flag set and the chain untouched, no recreation in that call; the
\* flag then stays set until a recreate(), and an acquire() entered with the
\* flag set recreates before its first native attempt.
C11_SuboptimalDeferred ==
  /\ [][ (pc = "acq_native" /\ acq' # acq /\ Last(acq') = "ok_suboptimal") =>
           /\ pc' = "d_begin"
           /\ sc'.suboptimal
           /\ sc'.inner = sc.inner /\ sc'.images = sc.images
           /\ chains' = chains
           /\ Recreations(acq') = Recreations(acq)
           /\ err' = err ]_vars
  /\ [][ (sc.suboptimal /\ ~sc'.suboptimal) =>
           /\ pc \in { "acq_check", "idle" }
           /\ sc'.inner # sc.inner /\ sc'.inner # 0
           /\ pc = "acq_check" => acq = NoAcquire /\ acq' = << "recreate" >> ]_vars
  /\ [][ (pc = "acq_check" /\ sc.suboptimal) =>
           /\ acq = NoAcquire
           /\ pc' \in { "acq_check", "failed", "acq_native" }
           /\ pc' = "acq_native" => acq' = << "recreate" >> /\ ~sc'.suboptimal
           /\ pc' = "failed" => err'[1] = "acquire" /\ err'[2] \in CreateResults ]_vars

\* acquire() has just returned a suboptimal image of the chain it was entered with
C11_Witness ==
  /\ pc = "d_begin"
  /\ acq = << "ok_suboptimal" >>
  /\ sc.suboptimal
  /\ sc.inner = 1

\* the result of the native acquire attempt made in this step
Attempted(log) == Last(Natives(log))

\* C12: acquire() fails only on a timeout, on another native error, or when
\* a recreation fails; a not-ready result is retried, an out-of-date result
\* is answered by recreate-and-retry, a suboptimal success returns the image.
C12_AcquireErrors ==
  /\ []( (Len(err) = 2 /\ err[1] = "acquire") =>
           err[2] \in { "timeout", "error", "query_failed", "images_failed" } )
  /\ [][ (pc = "acq_native" /\ acq' # acq) =>
           /\ Attempted(acq') = "not_ready" =>
                pc' = "acq_check" /\ err' = err /\ sc' = sc
           /\ Attempted(acq') = "ok_suboptimal" =>
                pc' = "d_begin" /\ err' = err
           /\ Attempted(acq') = "out_of_date" =>
                \/ pc' = "acq_check" /\ err' = err /\ Last(acq') = "recreate"
                \/ /\ pc' = "failed"
                   /\ err' \in { << "acquire", "query_failed" >>,
                                  << "acquire", "images_failed" >> }
           /\ pc' = "failed" =>
                Attempted(acq') \in { "timeout", "error", "out_of_date" } ]_vars

\* one call absorbed a not-ready, an out-of-date and a suboptimal result
C12_Witness ==
  /\ pc = "d_begin"
  /\ acq = << "not_ready", "out_of_date", "recreate", "ok_suboptimal" >>
  /\ err = << >>

\* C13: a native acquire that times out ends acquire() with an error at
\* once: no further attempt, no recreation, chain handle and stale flag as
\* they were before the attempt.
C13_TimeoutFailsAtOnce ==
  /\ [][ (pc = "acq_native" /\ acq' # acq /\ Attempted(acq') = "timeout") =>
           /\ pc' = "failed"
           /\ err' = << "acquire", "timeout" >>
           /\ acq' = Append(acq, "timeout")
           /\ sc' = sc
           /\ chains' = chains ]_vars
  /\ []( (pc = "failed" /\ err = << "acquire", "timeout" >>) =>
           /\ Last(acq) = "timeout"
           /\ sc.inner # 0 /\ ~sc.suboptimal )
  /\ [][ pc = "failed" => acq' \in { acq, NoAcquire } /\ sc' = sc ]_vars

\* the second attempt of a call timed out
C13_Witness ==
  /\ pc = "failed"
  /\ err = << "acquire", "timeout" >>
  /\ acq = << "not_ready", "timeout" >>

\* C14: the stale flag rises only when a native acquire or present reports a
\* stale chain; a recreate() that returns Ok leaves the flag clear, the old
\* chain destroyed, and the handle and image list those of the new chain.
C14_ValidStaleRecreate ==
  /\ [][ (~sc.suboptimal /\ sc'.suboptimal) =>
           \/ pc = "acq_native" /\ acq' # acq
                /\ Attempted(acq') \in { "ok_suboptimal", "out_of_date" }
           \/ pc = "d_present" /\ pc' = "idle" ]_vars
  /\ [][ (sc'.inner # sc.inner /\ sc'.inner # 0) =>
           /\ ~sc'.suboptimal
           /\ sc.inner \notin chains'
           /\ sc'.inner \in chains'
           /\ sc'.images = sc'.inner
           /\ sc'.images # sc.images ]_vars
  /\ []( sc.inner # 0 => sc.images = sc.inner /\ sc.inner \in chains )

\* the chain went stale, was recreated twice and has gone stale again
C14_Witness ==
  /\ pc = "d_begin"
  /\ acq = << "recreate", "ok_suboptimal" >>
  /\ sc.suboptimal
  /\ sc.inner = 1
  /\ chains = { 1 }

\* draw() has called next() and has not come back to the event loop
InDraw == pc \in { "d_wait", "acq_check", "acq_native", "d_begin", "d_end",
                   "d_submit", "d_present" }

\* C15 as stated: right after next() has returned slot s, current() is s.
C15_NextReturnsNewCurrent == pc = "d_wait" => CurrentIndex(frame) = cur

\* C15 amended: next() returns the slot at the cursor as it was before the
\* call and then advances the cursor by one modulo N; right after next() has
\* returned slot s, previous() is s and current() is the slot after s.
C15_NextReturnsOldCurrent ==
  /\ [][ (pc = "idle" /\ pc' = "d_wait") =>
           /\ cur' = CurrentIndex(frame)
           /\ frame' = (frame + 1) % FRAMES ]_vars
  /\ []( InDraw =>
           /\ PreviousIndex(frame) = cur
           /\ CurrentIndex(frame) = (cur + 1) % FRAMES
           /\ CurrentIndex(frame) # cur )

\* next() has returned slot 1 and wrapped the cursor to 0
C15_Witness ==
  /\ pc = "d_wait"
  /\ cur = 1
  /\ frame = 0

\* C16: at every cursor value c, current() is slot c and previous() is slot
\* (c + N - 1) mod N; resize(), which calls previous(), leaves the cursor
\* alone and appends the replaced target's records to that slot's queue.
C16_CurrentAndPrevious ==
  /\ []( /\ frame \in Slots
         /\ CurrentIndex(frame) = frame
         /\ PreviousIndex(frame) = (frame + FRAMES - 1) % FRAMES
         /\ \A c \in Slots : /\ CurrentIndex(c) = c
                              /\ PreviousIndex(c) = (c + FRAMES - 1) % FRAMES )
  /\ [][ (pc = "idle" /\ queues' # queues) =>
           /\ frame' = frame
           /\ queues'[FQ((frame + FRAMES - 1) % FRAMES)] =
                queues[FQ((frame + FRAMES - 1) % FRAMES)] \o queues["rt"]
           /\ queues'[FQ(frame)] = queues[FQ(frame)] ]_vars

\* resize() replaced the first target with the cursor at 0: previous() wrapped
\* to slot 1
C16_Witness ==
  /\ pc = "idle"
  /\ frame = 0
  /\ rt.gen = 2
  /\ queues["f1"] = ImageRecords(1)
  /\ queues["f0"] = << >>

\* C17: the cursor stays within 0 .. N-1 and wraps; each next() hands out
\* the slot after the one the next() before it handed out, so with N = 2 any
\* two consecutive calls hand out both slots, each once.
C17_RoundRobin ==
  /\ []( frame \in Slots /\ cur \in Slots )
  /\ []( cur = frame =>
           /\ frame = 0 /\ ~InDraw
           /\ \A i \in Slots : slot[i].fence /\ ~slot[i].pending )
  /\ [][ (pc = "idle" /\ pc' = "d_wait") =>
           /\ cur' = frame
           /\ frame' = (frame + 1) % FRAMES
           /\ cur # frame => /\ cur' = (cur + 1) % FRAMES
                             /\ { cur, cur' } = Slots ]_vars

\* the third next(): slot 0 again, with the submissions of both earlier
\* draws still executing
C17_Witness ==
  /\ pc = "d_wait"
  /\ cur = 0
  /\ frame = 1
  /\ slot[0].pending
  /\ slot[1].pending

\* C18: every slot's fence starts signaled and falls only when the slot's
\* own wait() returns Ok, so the first wait() on a slot finds it signaled;
\* while the slot's submission executes the fence is unsignaled, it rises
\* only when that submission retires, and wait() returns Ok only on a
\* signaled fence.
C18_FenceProtocol ==
  /\ \A i \in Slots : slot[i].fence /\ ~slot[i].pending
  /\ []( \A i \in Slots : slot[i].pending => ~slot[i].fence )
  /\ [][ \A i \in Slots :
           /\ (slot[i].fence /\ ~slot'[i].fence) =>
                pc = "d_wait" /\ pc' = "acq_check" /\ i = cur
           /\ (~slot[i].fence /\ slot'[i].fence) =>
                slot[i].pending /\ ~slot'[i].pending
           /\ (~slot[i].pending /\ slot'[i].pending) =>
                pc = "d_submit" /\ i = cur /\ ~slot'[i].fence ]_vars
  /\ [][ (pc = "d_wait" /\ pc' = "acq_check") =>
           slot[cur].fence /\ ~slot[cur].pending ]_vars
  /\ []( pc = "d_wait" => slot[cur].fence \/ slot[cur].pending )

\* the second wait() on slot 0 has returned Ok: the submission of the first
\* draw has retired, that of the second is still executing
C18_Witness ==
  /\ pc = "acq_check"
  /\ cur = 0
  /\ ~slot[0].fence
  /\ slot[1].pending
  /\ ~slot[1].fence

\* C19: the wait() of a draw depends on the fence of its own slot only, the
\* one submitted two draws earlier: it can return Ok whenever that fence is
\* signaled, whatever the other slot's submission is doing, it times out
\* only while its own slot's submission is executing, and it leaves the
\* other slot as it is.
C19_WaitOwnSlotOnly ==
  /\ []( (pc = "d_wait" /\ slot[cur].fence) => ENABLED DrawWait("ok") )
  /\ []( pc = "d_wait" => cur # CurrentIndex(frame) )
  /\ [][ (pc = "d_wait" /\ pc' = "failed" /\ err' = << "wait", "timeout" >>) =>
           slot[cur].pending ]_vars
  /\ [][ (pc = "d_wait" /\ pc' \in { "acq_check", "failed" }) =>
           \A i \in Slots \ { cur } : slot'[i] = slot[i] ]_vars

\* the host has recorded slot 1 while the submission of slot 0, made by the
\* draw before, is still executing
C19_Witness ==
  /\ pc = "d_end"
  /\ cur = 1
  /\ slot[1].cbuf = rt.gen
  /\ ~slot[1].pending
  /\ slot[0].pending
  /\ slot[0].cbuf = rt.gen

\* C20: append(other) leaves self holding its own records followed by
\* other's, each in their order, and other empty; a flush of self right
\* after it destroys other's records, last first, and then self's own, last
\* first.
C20_AppendThenFlush ==
  /\ hpc = "appended" =>
       /\ Len(hq) = Len(hbase) + Len(hmoved)
       /\ \A k \in 1 .. Len(hbase) : hq[k] = hbase[k]
       /\ \A k \in 1 .. Len(hmoved) : hq[Len(hbase) + k] = hmoved[k]
       /\ hother = << >>
  /\ (hpc = "flushed" /\ happ) =>
       /\ Len(hlog) = Len(hmoved) + Len(hbase)
       /\ \A k \in 1 .. Len(hmoved) : hlog[k] = hmoved[Len(hmoved) + 1 - k]
       /\ \A k \in 1 .. Len(hbase) :
            hlog[Len(hmoved) + k] = hbase[Len(hbase) + 1 - k]
       /\ hq = << >>
       /\ hother = << >>

\* two records appended to a queue of two, then flushed
C20_Witness ==
  /\ hpc = "flushed"
  /\ happ
  /\ hbase = << "Image", "Fence" >>
  /\ hmoved = << "CommandPool", "Semaphore" >>
  /\ hlog = << "Semaphore", "CommandPool", "Fence", "Image" >>

\* C21: a flush in which some destroy calls fail still attempts every record
\* once, in reverse order of pushing, reports each failure and leaves the
\* queue empty.
C21_FlushSurvivesFailures ==
  hpc = "flushed" =>
    /\ Len(hlog) = Len(hpushed)
    /\ \A k \in 1 .. Len(hpushed) : hlog[Len(hpushed) + 1 - k] = hpushed[k]
    /\ hfailed \subseteq 1 .. Len(hlog)
    /\ \A k \in hfailed : DestroyCanFail(hlog[k])
    /\ hq = << >>

\* the free of an allocation failed in the middle of a flush
C21_Witness ==
  /\ hpc = "flushed"
  /\ hpushed = << "Image", "Allocation", "Fence" >>
  /\ hfailed = { 2 }
  /\ hlog = << "Fence", "Allocation", "Image" >>

\* C22: dropping a queue that holds one or more records makes one leak
\* report, whatever their number, and the program goes on; dropping an empty
\* or flushed queue makes none.
C22_OneLeakReport ==
  /\ hpc = "dropped" =>
       /\ Len(hq) >= 1 => hleak = 1
       /\ Len(hq) = 0 => hleak = 0
       /\ ENABLED HNew
  /\ hpc # "dropped" => hleak = 0

\* a queue holding two records was dropped
C22_Witness ==
  /\ hpc = "dropped"
  /\ Len(hq) = 2
  /\ hleak = 1

NoDuplicates(s) == \A i, j \in 1 .. Len(s) : i # j => s[i] # s[j]

\* C23: no deletion record is held twice, by one queue or by two, none is
\* destroyed twice, and a destroyed record is held by no queue.
C23_SingleOwner ==
  /\ \A q \in QueueIds : NoDuplicates(queues[q])
  /\ \A q1, q2 \in QueueIds :
       q1 # q2 => Range(queues[q1]) \cap Range(queues[q2]) = { }
  /\ NoDuplicates(destroyed)
  /\ \A q \in QueueIds : Range(queues[q]) \cap Range(destroyed) = { }

\* the first target's records were moved to a slot and destroyed there, the
\* second target's records have been moved to a slot in turn
C23_Witness ==
  /\ pc = "idle"
  /\ Range(ImageRecords(1)) \subseteq Range(destroyed)
  /\ \E i \in Slots : queues[FQ(i)] = ImageRecords(2)
  /\ queues["rt"] = ImageRecords(3)

\* C29: once draw() or resize() has returned an error, the event loop runs
\* neither of them again on this Graphics: all that follows is its drop.
C29_ErrorEndsLoop ==
  /\ []( err # << >> => pc \in { "failed", "drop", "done" } )
  /\ [][ pc = "failed" =>
           /\ pc' \in { "failed", "drop" }
           /\ frame' = frame /\ cur' = cur
           /\ sc' = sc /\ rt' = rt /\ queues' = queues
           /\ err' = err ]_vars
  /\ [][ (pc = "drop" \/ pc = "done") => (pc' = "drop" \/ pc' = "done") ]_vars

\* the second draw() failed at present and Graphics has been dropped
C29_Witness ==
  /\ pc = "done"
  /\ err = << "present", "error" >>
  /\ cur = 1
  /\ frame = 0

DrawOrder == << "wait", "acquire", "begin", "end", "submit", "present" >>

\* C26: the calls of one draw() are made in the order wait, acquire, begin,
\* end, submit, present, each only after the one before returned Ok; submit
\* waits on the semaphore acquire signals and signals the fence wait() waits
\* on, present waits on a semaphore submit signals, and all of them are those
\* of the slot next() handed out.
C26_DrawCallOrder ==
  /\ Len(ops) <= Len(DrawOrder)
  /\ \A k \in 1 .. Len(ops) :
       /\ ops[k].op = DrawOrder[k]
       /\ k < Len(ops) => ops[k].ok
       /\ ops[k].waits \cup ops[k].signals \subseteq Range(FrameRecords(cur))
  /\ Len(ops) >= 5 =>
       /\ ops[5].waits # { } /\ ops[5].waits \subseteq ops[2].signals
       /\ ops[1].waits \subseteq ops[5].signals
  /\ Len(ops) = 6 =>
       /\ ops[5].ok
       /\ ops[6].waits # { } /\ ops[6].waits \subseteq ops[5].signals
       /\ ops[6].waits \cap ops[2].signals = { }
  /\ (pc = "idle" /\ ops # << >>) => Len(ops) = 6 /\ ops[6].ok
  /\ pc = "d_present" =>
       Len(ops) = 5 /\ ops[5].ok /\ (slot[cur].pending \/ slot[cur].fence)

\* the second draw() has returned Ok
C26_Witness ==
  /\ pc = "idle"
  /\ cur = 1
  /\ Len(ops) = 6
  /\ ops[6] = Call(PresentOp(1), TRUE)

\* C30: a resize() that sees the window extent the resize() before it saw
\* leaves the swapchain extent and the render target as they are, replaces
\* nothing and moves no record into a frame slot's queue.
C30_ResizeIdempotent ==
  [][ (pc = "idle" /\ resized # << >> /\ resized' # << >>
         /\ resized'[1] = resized[1] /\ sc'.inner # sc.inner) =>
        /\ pc' = "idle"
        /\ sc'.extent = sc.extent
        /\ rt' = rt
        /\ queues' = queues
        /\ ntargets' = ntargets
        /\ binding' = binding ]_vars

\* the first resize() to 64x700 replaced the render target, the second kept it
C30_Witness ==
  /\ pc = "idle"
  /\ resized = << << 64, 700 >>, 2 >>
  /\ rt = [ gen |-> 2, extent |-> << 256, 512 >> ]
  /\ sc.extent = << 64, 512 >>
  /\ Range(ImageRecords(1)) \subseteq Range(queues["f1"])

\* C24: when FrameInFlight::new or ImageBuilder::build fails, the queue it
\* was given holds a record for every object it had created; after a failed
\* resize() the flush of the render-target queue at teardown destroys them.
C24_PartialBuildRegistered ==
  /\ (pc = "new_failed" /\ err[1] = "new_frames") =>
       FrameObjects(err[2][1], err[2][2]) \subseteq Range(queues["global"])
  /\ (pc = "new_failed" /\ err[1] = "new_target") =>
       BuiltObjects(1, err[2]) \subseteq Range(queues["rt"])
  /\ (pc = "failed" /\ err[1] = "resize" /\ err[2] \in BuildResults) =>
       /\ BuiltObjects(ntargets, err[2]) # { } =>
            Range(queues["rt"]) = BuiltObjects(ntargets, err[2])
       /\ BuiltObjects(ntargets, err[2]) = { } => queues["rt"] = << >>
  /\ (pc = "done" /\ err # << >> /\ err[1] = "resize"
         /\ err[2] \in BuildResults \ { "image_failed" }) =>
       BuiltObjects(ntargets, err[2]) \subseteq Range(destroyed)

\* the view of the second render target could not be created; teardown has
\* destroyed its image and freed its memory
C24_Witness ==
  /\ pc = "done"
  /\ err = << "resize", "view_failed" >>
  /\ ntargets = 2
  /\ <<"Image", 2>> \in Range(destroyed)
  /\ <<"Allocation", 2>> \in Range(destroyed)

\* C25: after Graphics::new has failed and returned, no deletion queue still
\* holds a record and none was dropped non-empty.
C25_NewFailureFlushes ==
  pc = "new_dropped" =>
    /\ leaks = 0
    /\ \A q \in QueueIds : queues[q] = << >>

\* the calls of a complete submit(), in order
ImmOrder == << "reset_fences", "reset_command_buffer", "begin_command_buffer",
               "closure", "end_command_buffer", "queue_submit2",
               "wait_for_fences" >>

\* C27: submit() makes its calls in the order reset fence, reset command
\* buffer, begin, closure (once), end, queue submit, fence wait; the queue
\* submit names no wait or signal semaphore and only the Immediate's own
\* fence; Ok is returned only after all seven calls succeeded and the
\* submitted batch has retired, and then the next submit() can start.
C27_SubmitProtocol ==
  /\ Len(icalls) <= Len(ImmOrder)
  /\ \A k \in 1 .. Len(icalls) :
       /\ icalls[k] = ImmOp(ImmOrder[k], icalls[k].res)
       /\ k < Len(icalls) => icalls[k].res = "ok"
       /\ icalls[k].op = "queue_submit2" =>
            /\ icalls[k].waits = { } /\ icalls[k].signals = { }
            /\ icalls[k].fence = "imm" /\ icalls[k].cbuf = "imm"
  /\ (ipc = "idle" /\ irets # << >> /\ Last(irets)[1] = "ok") =>
       /\ Len(icalls) = Len(ImmOrder)
       /\ \A k \in 1 .. Len(icalls) : icalls[k].res = "ok"
       /\ Cardinality({ k \in 1 .. Len(icalls) : icalls[k].op = "closure" }) = 1
       /\ ~ipending
       /\ ifence
       /\ icbuf = "invalid"
       /\ isubmits < MaxSubmits => ENABLED ImmCall

\* two submits in a row have returned Ok, reusing the fence and the buffer
C27_Witness ==
  /\ ipc = "idle"
  /\ isubmits = 2
  /\ iqueued = 2
  /\ irets = << << "ok", 1 >>, << "ok", 2 >> >>

\* C28: when the closure returns Err, submit() returns that error and hands
\* nothing to the queue; when the fence wait times out, submit() returns an
\* error and not the closure's value.
C28_SubmitErrors ==
  ipc = "idle" =>
    /\ (\E k \in 1 .. Len(icalls) :
          icalls[k].op = "closure" /\ icalls[k].res # "ok") =>
         /\ Last(irets) = << "err", "closure" >>
         /\ \A k \in 1 .. Len(icalls) : icalls[k].op # "queue_submit2"
         /\ icbuf # "pending"
    /\ (icalls # << >> /\ Last(icalls).op = "wait_for_fences"
          /\ Last(icalls).res = "timeout") =>
         /\ Last(irets) = << "err", "timeout" >>
         /\ ival \in { 1, 2 }

\* a submit whose closure failed, then one whose fence wait timed out
C28_Witness ==
  /\ ipc = "idle"
  /\ irets = << << "err", "closure" >>, << "err", "timeout" >> >>
  /\ iqueued = 1
  /\ ipending

\* v clamped into [lo, hi]
Clamp(v, lo, hi) == IF v < lo THEN lo ELSE IF v > hi THEN hi ELSE v

\* C31: whenever the reported min_image_extent is at most max_image_extent,
\* the extent of a created or recreated chain is the requested extent
\* clamped, per dimension, into [min_image_extent, max_image_extent].
C31_ExtentClamped ==
  (xsc.inner # 0 /\ xcaps.minw <= xcaps.maxw /\ xcaps.minh <= xcaps.maxh) =>
    /\ xsc.extent[1] = Clamp(xreq[1], xcaps.minw, xcaps.maxw)
    /\ xsc.extent[2] = Clamp(xreq[2], xcaps.minh, xcaps.maxh)
    /\ xcaps.minw <= xsc.extent[1] /\ xsc.extent[1] <= xcaps.maxw
    /\ xcaps.minh <= xsc.extent[2] /\ xsc.extent[2] <= xcaps.maxh

\* a recreated chain whose width was raised to the minimum and whose height
\* was cut to the maximum
C31_Witness ==
  /\ xsc.inner # 0
  /\ xsc.images # 1
  /\ xreq = << 64, 700 >>
  /\ xcaps = [ minw |-> 128, maxw |-> 256, minh |-> 1, maxh |-> 512 ]
  /\ xsc.extent = << 128, 512 >>

\* C32: as_slice on a built Buffer returns a view exactly when the
\* allocation is host-mapped (always for the host-visible locations); the
\* view is as long as the requested capacity, and it starts with the bytes
\* last written through as_slice_mut.
C32_MappedViewRoundTrip ==
  /\ bpc = "built" =>
       /\ bbuf.ptr = bmem.mapped
       /\ bbuilder.location # "GpuOnly" => bbuf.ptr
       /\ bbuf.size = bbuilder.capacity
       /\ (ENABLED (\E data \in ByteSeqs(MaxCapacity) : BufWrite(data)))
            <=> bmem.mapped
  /\ (bpc = "built" /\ bread # << "unread" >>) =>
       /\ (bread[1] = "Some") = bmem.mapped
       /\ (bread[1] = "None") = ~bmem.mapped
       /\ bread[1] = "Some" =>
            /\ Len(bread[2]) = bbuilder.capacity
            /\ SubSeq(bread[2], 1, Len(bwrote)) = bwrote

\* two bytes written to a buffer of capacity two, in a larger region that
\* held other bytes, have been read back
C32_Witness ==
  /\ bpc = "built"
  /\ bbuilder = [ capacity |-> 2, location |-> "CpuToGpu" ]
  /\ Len(bmem.bytes) = 3
  /\ bwrote = << 1, 0 >>
  /\ bread = << "Some", << 1, 0 >> >>

\* C33: as_slice on a Buffer built with capacity 0 returns an empty view,
\* never an absent one (the native calls of the build having succeeded).
C33_ZeroCapacityView ==
  (bbuilder.capacity = 0 /\ bpc = "built" /\ bread # << "unread" >>) =>
    bread = << "Some", << >> >>

\* C34: after every resize() that returned Ok, the render target is, in
\* width and in height, at least as large as the swapchain image and at most
\* 256 larger.
C34_TargetWithinBand ==
  (pc = "idle" /\ resized # << >>) =>
    \A d \in { 1, 2 } :
      /\ rt.extent[d] >= sc.extent[d]
      /\ rt.extent[d] - sc.extent[d] <= RENDER_TARGET_MULTIPLES

\* the records of render-target generation g within s, in the order of s
OfTarget(s, g) ==
  SelectSeq(s, LAMBDA e : e \in { <<"Image", g>>, <<"Allocation", g>>,
                                   <<"ImageView", g>> })

\* C35: the records of a successfully built image sit in whichever queue
\* holds them in the order image, allocation, image view, also behind other
\* entries of a frame slot's queue; once flushed, the view was destroyed
\* before the allocation and the allocation before the image.
C35_ImageRecordOrder ==
  \A g \in 1 .. MaxTargets :
    /\ \A q \in QueueIds :
         <<"ImageView", g>> \in Range(queues[q]) =>
           OfTarget(queues[q], g) =
             << <<"Image", g>>, <<"Allocation", g>>, <<"ImageView", g>> >>
    /\ <<"ImageView", g>> \in Range(destroyed) =>
         OfTarget(destroyed, g) =
           << <<"ImageView", g>>, <<"Allocation", g>>, <<"Image", g>> >>

\* two replaced render targets were appended to the same slot's queue, the
\* second behind the first, and a fence wait of that slot has flushed them
C35_Witness ==
  /\ pc \notin { "drop", "done" }
  /\ tdlog = << >>
  /\ ntargets = 3
  /\ Len(destroyed) >= 7
  /\ SubSeq(destroyed, Len(destroyed) - 5, Len(destroyed)) =
       << <<"ImageView", 2>>, <<"Allocation", 2>>, <<"Image", 2>>,
          <<"ImageView", 1>>, <<"Allocation", 1>>, <<"Image", 1>> >>

\* C36: between draw() calls, whether the last one returned Ok or Err, the
\* fence of every frame slot is signaled or has a pending submission that
\* will signal it.
C36_FenceNeverStranded ==
  (pc = "idle" \/ pc = "failed") =>
    \A i \in Slots : slot[i].fence \/ slot[i].pending

\* C38: in every state in which draw() can be called, also after a resize()
\* that returned an error, render_target and descriptor binding 0 name an
\* image whose records are held by render_target_delete_queue.
C38_TargetOwnedByItsQueue ==
  (pc = "idle" \/ pc = "failed") =>
    /\ binding = rt.gen
    /\ \A e \in Range(ImageRecords(rt.gen)) : e \in Range(queues["rt"])
    /\ \A e \in Range(ImageRecords(rt.gen)) : e \notin Range(destroyed)

\* C37: acquire_next_image is never called on a null chain handle: after a
\* recreate() that failed, a later acquire() recreates the chain before its
\* native attempt or returns an error without one.
C37_NoNativeCallOnNull == xacq # 0

\* C39: acquire() terminates, with an image or with an error, when the
\* native acquire reports not-ready or out-of-date only a bounded number of
\* times in a row; each round of its loop makes exactly one native attempt,
\* the recreation at the top of a round makes none, success returns an image
\* and every result other than not-ready and out-of-date returns an error.
C39_AcquireTerminates ==
  /\ (pc = "acq_check" \/ pc = "acq_native") ~> (pc = "d_begin" \/ pc = "failed")
  /\ [][ /\ pc = "acq_check" => Natives(acq') = Natives(acq)
         /\ (pc = "acq_native" /\ acq' # acq) =>
              /\ Len(Natives(acq')) = Len(Natives(acq)) + 1
              /\ Last(Natives(acq')) \in { "ok", "ok_suboptimal" } <=> pc' = "d_begin"
              /\ Last(Natives(acq')) \in { "timeout", "error" } => pc' = "failed"
              /\ Last(Natives(acq')) = "not_ready" => pc' = "acq_check"
              /\ (Last(Natives(acq')) = "out_of_date" /\ Last(acq') = "recreate")
                   => pc' = "acq_check"
         /\ (pc = "acq_native" /\ pc' # pc) => acq' # acq
         /\ (pc = "acq_check" \/ pc = "acq_native") =>
              (pc' = "failed" <=> err' # << >>) ]_vars

\* an image was returned on the third attempt, after a not-ready and an
\* out-of-date round with its recreation
C39_Witness ==
  /\ pc = "d_begin"
  /\ acq = << "not_ready", "out_of_date", "recreate", "ok" >>

\* C40: every native chain handle is destroyed exactly once: a chain that is
\* destroyed was alive, and after teardown no created chain is left alive.
C40_ChainsDestroyedOnce ==
  /\ sc.inner # 0 => sc.inner \in chains
  /\ pc = "done" => chains = { }

====
